---------------------------- MODULE Spec2Model ----------------------------
(***************************************************************************)
(* Base-Api: the API-key quota ledger (checkAndUpdateApiKeyUsage, in its   *)
(* SQLite and its PostgreSQL store variant), the /apikeys routes that      *)
(* write api_keys rows, and the authenticateApiKey middleware.             *)
(*                                                                         *)
(* Time is the calendar date: `today` is what date('now') / CURRENT_DATE / *)
(* new Date() give.  A store statement is one atomic step; a handler is a  *)
(* chain of such steps, interleaved with the steps of other handlers at    *)
(* every callback / await.                                                 *)
(***************************************************************************)
EXTENDS Integers, Sequences, FiniteSets, TLC

\* ------------------------------------------------------------- bounds
NProcs == 2      \* concurrent callers of checkAndUpdateApiKeyUsage
NKeys == 1       \* api_keys rows
NUsers == 2      \* users rows
MaxLimit == 2    \* daily_limit values 1..MaxLimit
MaxDay == 1      \* dates 0..MaxDay; the model starts on date 0
MaxRegen == 1    \* key values generated by regenerate
MaxRouteReqs == 1  \* /apikeys write requests handled
MaxReqs == 3     \* requests sent through a middleware
MaxTokens == 1   \* tokens signed by generateToken
MaxUserEdits == 1  \* writes to users rows
MaxRate == 1     \* rateLimiter limits 1..MaxRate
MaxWindow == 2   \* rateLimiter windows 1..MaxWindow
MaxClock == 4    \* Date.now() values 0..MaxClock
MaxRouteCalls == 2  \* /apikeys/:id requests handled concurrently

Procs == 1..NProcs
Keys == 1..NKeys
Users == 1..NUsers
Limits == 1..MaxLimit
Days == 0..MaxDay

VARIABLES
    variant,      \* "sqlite" (part_002) or "pg" (part_003): the store variant in use
    today,        \* the current date
    api_keys,     \* the api_keys table: key id -> row
    users,        \* the users table: user id -> row
    lock,         \* pg: key id -> the caller whose open transaction holds the row lock (0: none)
    call,         \* caller -> its checkAndUpdateApiKeyUsage call (position, locals, result)
    nextVal,      \* the number of key values generateApiKey has produced
    lastStatus,   \* HTTP status of the latest /apikeys route response (0: none yet)
    routeReqs,    \* the number of /apikeys write requests handled so far
    counted,      \* history: key id -> allowed=true results since the counter was last zeroed
    lastIncDay,   \* history: key id -> the date of the latest call that incremented the row (-1: none)
    usageMode,    \* how the middleware's store function updateApiKeyUsage counts
    req,          \* the request authenticateApiKey is handling (position, locals, response)
    nReqs,        \* the number of requests authenticateApiKey has received
    usage_logs,   \* the usage_logs table: the rows appended so far
    served,       \* history: key id -> quota accesses of the middleware since the counter was 0
    tokens,       \* the JWTs generateToken has signed so far
    requests,     \* rateLimiter: the Map from client key to the times of its admitted requests
    clock,        \* rateLimiter: Date.now()
    userEdits,    \* the number of writes to users rows so far
    limiter,      \* rateLimiter: the limit and windowMs it was made with
    rateLog,      \* history: the requests rateLimiter has handled (client, time, outcome)
    rcall,        \* caller -> its /apikeys/:id request (position, caller's user, :id, answer)
    sessions,     \* the sessions table: the rows createSession has inserted
    reg,          \* caller -> its /auth/register or /auth/login request (position, body, answer)
    proxy,        \* history: the requests the proxy endpoints of routes/api.js have answered
    resets        \* the password reset tokens saveResetToken has stored: token -> row

ledgerVars == <<variant, today, api_keys, users, lock, call, nextVal, lastStatus,
                routeReqs, counted, lastIncDay>>

extVars == <<tokens, requests, clock, userEdits, limiter, rateLog, rcall, sessions, reg, proxy, resets>>

authVars == <<usageMode, req, nReqs, usage_logs, served, extVars>>

vars == <<ledgerVars, authVars>>

\* ------------------------------------------------------------- rows
NoRow == [none |-> TRUE]
NoSel == [none |-> TRUE]
NoResult == [none |-> TRUE]

\* A users row as the register route writes it, with is_active as given.
UserRow(act) ==
    [is_active |-> act, plan |-> "free", email |-> "a@x", is_verified |-> 1]

\* The owner of key k (user_id never changes after the INSERT).
OwnerOf(k) == ((k - 1) % NUsers) + 1

\* The key value a row is created with; regenerate hands out NKeys+1, NKeys+2, ...
InitialValue(k) == k

\* Faulty variants of the statements below; the properties must tell them apart.
\* A reset that zeroes the counter but leaves last_reset_date behind.
ResetRowKeepDate(row, d) ==
    IF row.last_reset_date < d THEN [row EXCEPT !.requests_today = 0] ELSE row

\* A reset without its date condition.
ResetRowAlways(row, d) == [row EXCEPT !.requests_today = 0, !.last_reset_date = d]

\* An increment that writes back the value the caller selected earlier plus one.
IncRowFromSelect(row, sel) == [row EXCEPT !.requests_today = sel.requests_today + 1]

\* UPDATE api_keys SET requests_today = CASE WHEN last_reset_date < <date> THEN 0 ...,
\*                     last_reset_date = CASE WHEN last_reset_date < <date> THEN <date> ...
ResetRow(row, d) ==
    IF row.last_reset_date < d
    THEN [row EXCEPT !.requests_today = 0, !.last_reset_date = d]
    ELSE row

\* SELECT requests_today, daily_limit FROM api_keys WHERE id = ?
SelectUsage(row) ==
    [requests_today |-> row.requests_today, daily_limit |-> row.daily_limit]

\* const hasLimit = row.requests_today < row.daily_limit
HasLimit(sel) == sel.requests_today < sel.daily_limit

\* UPDATE api_keys SET requests_today = requests_today + 1 WHERE id = ?
\* (sel is the caller's earlier SELECT result, which the statement does not use)
IncRow(row, sel) == [row EXCEPT !.requests_today = row.requests_today + 1]

\* { allowed: true, remaining: row.daily_limit - row.requests_today - 1, limit }
AllowedResult(sel) ==
    [allowed |-> TRUE,
     remaining |-> sel.daily_limit - sel.requests_today - 1,
     limit |-> sel.daily_limit]

\* { allowed: false, remaining: 0, limit: row.daily_limit }
DeniedResult(sel) ==
    [allowed |-> FALSE, remaining |-> 0, limit |-> sel.daily_limit]

\* ------------------------------------------------------------- calls
\* pc: idle | s_select s_inc (sqlite) | p_reset p_select p_inc p_commit (pg) | done
\* day: the date the call's reset used (sqlite: date('now') of the reset statement;
\*      pg: CURRENT_DATE, the date the transaction began)
\* tx: pg, the row as the open transaction sees it (its uncommitted version)
\* h_*: history of the call, read only by the properties
\*   h_before, h_limit: requests_today and daily_limit stored immediately before the
\*                      call's increment (admitted) or at its comparison (denied)
\*   h_wrote:   a statement of the call changed the stored requests_today
\*   h_solo:    the call began on a row with last_reset_date < today and
\*              requests_today = daily_limit >= 1, and nothing else has touched the
\*              key or the date since
\*   h_error:   the call has thrown
\*   h_released: the calls of client.release() (pg)
\*   h_start:   pg, the stored row when the call's reset UPDATE took the row lock
\*              (when it threw, for a call that threw before); dropped at COMMIT
\*   h_undone:  pg, the uncommitted row a ROLLBACK discarded
IdleCall ==
    [pc |-> "idle", key |-> 0, day |-> 0, sel |-> NoSel, tx |-> NoRow,
     result |-> NoResult, h_before |-> -1, h_limit |-> -1,
     h_wrote |-> FALSE, h_solo |-> FALSE,
     h_error |-> FALSE, h_released |-> 0, h_start |-> NoRow, h_undone |-> NoRow]

InFlight(c) == c.pc \notin {"idle", "done"}

\* c with the h_solo flags dropped for every call on key k other than p's.
Disturb(c, p, k) ==
    [q \in Procs |->
        IF q # p /\ c[q].key = k THEN [c[q] EXCEPT !.h_solo = FALSE] ELSE c[q]]

\* c with p's call replaced by nc, other calls on p's key disturbed.
Step(c, p, nc) == Disturb([c EXCEPT ![p] = nc], p, nc.key)

RolloverStart(row, d) ==
    /\ row.last_reset_date < d
    /\ row.requests_today = row.daily_limit
    /\ row.daily_limit >= 1

\* The h_solo flag of a call by p on key k that begins now.
SoloStart(p, k) ==
    /\ RolloverStart(api_keys[k], today)
    /\ lock[k] = 0
    /\ \A q \in Procs \ {p} : ~(InFlight(call[q]) /\ call[q].key = k)

\* ---- SQLite (part_002): three statements chained by callbacks, no transaction.
\* checkAndUpdateApiKeyUsage(k) is called and its reset statement runs.
SqReset(p, k) ==
    LET row == api_keys[k]
        new == ResetRow(row, today)
    IN  /\ variant = "sqlite"
        /\ call[p].pc = "idle"
        /\ api_keys' = [api_keys EXCEPT ![k] = new]
        /\ counted' = [counted EXCEPT ![k] = IF new.requests_today < row.requests_today
                                                \/ new.last_reset_date # row.last_reset_date
                                             THEN 0 ELSE @]
        /\ call' = Step(call, p,
                        [IdleCall EXCEPT !.pc = "s_select", !.key = k, !.day = today,
                                         !.h_wrote = new.requests_today # row.requests_today,
                                         !.h_solo = SoloStart(p, k)])
        /\ UNCHANGED <<authVars, variant, today, users, lock, nextVal, lastStatus, routeReqs, lastIncDay>>

SqSelect(p) ==
    LET c == call[p]
        k == c.key
        sel == SelectUsage(api_keys[k])
    IN  /\ c.pc = "s_select"
        /\ call' = Step(call, p,
                        IF HasLimit(sel)
                        THEN [c EXCEPT !.pc = "s_inc", !.sel = sel]
                        ELSE [c EXCEPT !.pc = "done", !.sel = sel,
                                       !.result = DeniedResult(sel),
                                       !.h_before = api_keys[k].requests_today,
                                       !.h_limit = api_keys[k].daily_limit])
        /\ UNCHANGED <<authVars, variant, today, api_keys, users, lock, nextVal, lastStatus, routeReqs,
                       counted, lastIncDay>>

SqInc(p) ==
    LET c == call[p]
        k == c.key
        row == api_keys[k]
    IN  /\ c.pc = "s_inc"
        /\ api_keys' = [api_keys EXCEPT ![k] = IncRow(row, c.sel)]
        /\ counted' = [counted EXCEPT ![k] = @ + 1]
        /\ lastIncDay' = [lastIncDay EXCEPT ![k] = IF c.day > @ THEN c.day ELSE @]
        /\ call' = Step(call, p,
                        [c EXCEPT !.pc = "done",
                                  !.result = AllowedResult(c.sel),
                                  !.h_before = row.requests_today,
                                  !.h_limit = row.daily_limit,
                                  !.h_wrote = TRUE])
        /\ UNCHANGED <<authVars, variant, today, users, lock, nextVal, lastStatus, routeReqs>>

\* ---- PostgreSQL (part_003): BEGIN ... COMMIT on one pooled connection.
\* The reset UPDATE has no date condition in its WHERE, so it always takes
\* the row lock, which the transaction holds until COMMIT.
\* checkAndUpdateApiKeyUsage(k) is called: pool.connect() and BEGIN.
PgBegin(p, k) ==
    /\ variant = "pg"
    /\ call[p].pc = "idle"
    /\ call' = Step(call, p,
                    [IdleCall EXCEPT !.pc = "p_reset", !.key = k, !.day = today,
                                     !.h_solo = SoloStart(p, k)])
    /\ UNCHANGED <<authVars, variant, today, api_keys, users, lock, nextVal, lastStatus, routeReqs,
                   counted, lastIncDay>>

PgReset(p) ==
    LET c == call[p]
        k == c.key
    IN  /\ c.pc = "p_reset"
        /\ lock[k] = 0
        /\ lock' = [lock EXCEPT ![k] = p]
        /\ call' = Step(call, p,
                        [c EXCEPT !.pc = "p_select", !.tx = ResetRow(api_keys[k], c.day),
                                  !.h_start = api_keys[k]])
        /\ UNCHANGED <<authVars, variant, today, api_keys, users, nextVal, lastStatus, routeReqs,
                       counted, lastIncDay>>

PgSelect(p) ==
    LET c == call[p]
        sel == SelectUsage(c.tx)
    IN  /\ c.pc = "p_select"
        /\ call' = Step(call, p,
                        IF HasLimit(sel)
                        THEN [c EXCEPT !.pc = "p_inc", !.sel = sel]
                        ELSE [c EXCEPT !.pc = "p_commit", !.sel = sel,
                                       !.result = DeniedResult(sel),
                                       !.h_before = c.tx.requests_today,
                                       !.h_limit = c.tx.daily_limit])
        /\ UNCHANGED <<authVars, variant, today, api_keys, users, lock, nextVal, lastStatus, routeReqs,
                       counted, lastIncDay>>

PgInc(p) ==
    LET c == call[p]
    IN  /\ c.pc = "p_inc"
        /\ call' = Step(call, p,
                        [c EXCEPT !.pc = "p_commit",
                                  !.tx = IncRow(c.tx, c.sel),
                                  !.result = AllowedResult(c.sel),
                                  !.h_before = c.tx.requests_today,
                                  !.h_limit = c.tx.daily_limit])
        /\ UNCHANGED <<authVars, variant, today, api_keys, users, lock, nextVal, lastStatus, routeReqs,
                       counted, lastIncDay>>

PgCommit(p) ==
    LET c == call[p]
        k == c.key
        row == api_keys[k]
        wasReset == c.tx.last_reset_date # row.last_reset_date
    IN  /\ c.pc = "p_commit"
        /\ api_keys' = [api_keys EXCEPT ![k] = c.tx]
        /\ lock' = [lock EXCEPT ![k] = 0]
        /\ counted' = [counted EXCEPT ![k] =
                          (IF wasReset THEN 0 ELSE @) + (IF c.result.allowed THEN 1 ELSE 0)]
        /\ lastIncDay' = [lastIncDay EXCEPT ![k] =
                          IF c.result.allowed /\ c.day > @ THEN c.day ELSE @]
        /\ call' = Step(call, p,
                        [c EXCEPT !.pc = "done", !.tx = NoRow,
                                  !.h_released = @ + 1, !.h_start = NoRow,
                                  !.h_wrote = c.tx.requests_today # row.requests_today])
        /\ UNCHANGED <<authVars, variant, today, users, nextVal, lastStatus, routeReqs>>

\* A ROLLBACK that keeps what the transaction has written so far.
RolledBackKeepsTx(row, tx) == IF tx = NoRow THEN row ELSE tx

\* catch (error) { await client.query('ROLLBACK'); .. }: the stored row after the
\* transaction that held the uncommitted version tx of it is rolled back.
RolledBack(row, tx) == row

\* BEGIN throws: ROLLBACK, the error is thrown on, finally client.release().
PgBeginFail(p, k) ==
    /\ variant = "pg"
    /\ call[p].pc = "idle"
    /\ api_keys' = [api_keys EXCEPT ![k] = RolledBack(@, NoRow)]
    /\ call' = Step(call, p,
                    [IdleCall EXCEPT !.pc = "done", !.key = k, !.day = today,
                                     !.h_error = TRUE, !.h_released = 1,
                                     !.h_start = api_keys[k]])
    /\ UNCHANGED <<authVars, variant, today, users, lock, nextVal, lastStatus, routeReqs,
                   counted, lastIncDay>>

\* The next statement of p's transaction (the reset UPDATE, the SELECT, the
\* increment UPDATE or COMMIT) throws: ROLLBACK discards the uncommitted row and
\* gives up the row lock, the error is thrown on, finally client.release().
PgFail(p) ==
    LET c == call[p]
        k == c.key
    IN  /\ c.pc \in {"p_reset", "p_select", "p_inc", "p_commit"}
        /\ api_keys' = [api_keys EXCEPT ![k] = RolledBack(@, c.tx)]
        /\ lock' = [lock EXCEPT ![k] = IF @ = p THEN 0 ELSE @]
        /\ call' = Step(call, p,
                        [c EXCEPT !.pc = "done", !.tx = NoRow, !.result = NoResult,
                                  !.h_error = TRUE, !.h_released = @ + 1,
                                  !.h_undone = c.tx,
                                  !.h_start = IF c.pc = "p_reset" THEN api_keys[k] ELSE @])
        /\ UNCHANGED <<authVars, variant, today, users, nextVal, lastStatus, routeReqs,
                       counted, lastIncDay>>

\* ---- /apikeys routes (routes/apikeys.js).  They reach the store through
\* database.pool, which only the PostgreSQL store has: under the SQLite store
\* pool.connect() throws and the handler's catch answers 500.  Each route's
\* UPDATE is one statement; it waits while a transaction holds the row lock.
\* A request body field that may be absent: <<>> or <<value>>.
Opt(S) == {<<>>} \union {<<x>> : x \in S}

\* const apiKey = apiKeys.find(key => key.id === keyId) over getUserApiKeys(userId)
OwnsKey(u, k) == api_keys[k].user_id = u

\* POST /:id/reset-usage: SET requests_today = 0, last_reset_date = CURRENT_DATE
ResetUsageRow(row, d) == [row EXCEPT !.requests_today = 0, !.last_reset_date = d]

ResetUsage(u, k) ==
    /\ routeReqs < MaxRouteReqs
    /\ routeReqs' = routeReqs + 1
    /\ UNCHANGED <<authVars, variant, today, users, lock, nextVal, lastIncDay>>
    /\ IF ~OwnsKey(u, k)
       THEN lastStatus' = 404 /\ UNCHANGED <<api_keys, call, counted>>
       ELSE IF variant # "pg"
       THEN lastStatus' = 500 /\ UNCHANGED <<api_keys, call, counted>>
       ELSE /\ lock[k] = 0
            /\ api_keys' = [api_keys EXCEPT ![k] = ResetUsageRow(@, today)]
            /\ counted' = [counted EXCEPT ![k] = 0]
            /\ call' = Disturb(call, 0, k)
            /\ lastStatus' = 200

\* A faulty PUT that also clears the counter.
PutRowClearing(row, act, dl) ==
    [row EXCEPT !.is_active = IF act = <<>> THEN @ ELSE act[1],
                !.daily_limit = IF dl = <<>> THEN @ ELSE dl[1],
                !.requests_today = 0]

\* PUT /:id: updateData holds is_active (as 1/0) and daily_limit when given
PutRow(row, act, dl) ==
    [row EXCEPT !.is_active = IF act = <<>> THEN @ ELSE act[1],
                !.daily_limit = IF dl = <<>> THEN @ ELSE dl[1]]

Put(u, k, act, dl) ==
    /\ routeReqs < MaxRouteReqs
    /\ routeReqs' = routeReqs + 1
    /\ UNCHANGED <<authVars, variant, today, users, lock, nextVal, counted, lastIncDay>>
    /\ IF ~OwnsKey(u, k)
       THEN lastStatus' = 404 /\ UNCHANGED <<api_keys, call>>
       ELSE IF variant # "pg"
       THEN lastStatus' = 500 /\ UNCHANGED <<api_keys, call>>
       ELSE IF act = <<>> /\ dl = <<>>
       THEN lastStatus' = 400 /\ UNCHANGED <<api_keys, call>>
       ELSE /\ lock[k] = 0
            /\ api_keys' = [api_keys EXCEPT ![k] = PutRow(@, act, dl)]
            /\ call' = Disturb(call, 0, k)
            /\ lastStatus' = 200

\* A regeneration that hands out a new value and leaves the stored one in place.
RegenerateRowKeepValue(row, v) == row

\* POST /:id/regenerate: SET key_value = generateApiKey()
RegenerateRow(row, v) == [row EXCEPT !.key_value = v]

Regenerate(u, k) ==
    /\ routeReqs < MaxRouteReqs
    /\ routeReqs' = routeReqs + 1
    /\ nextVal < NKeys + MaxRegen
    /\ UNCHANGED <<authVars, variant, today, users, lock, counted, lastIncDay>>
    /\ IF ~OwnsKey(u, k)
       THEN lastStatus' = 404 /\ UNCHANGED <<api_keys, call, nextVal>>
       ELSE IF variant # "pg"
       THEN lastStatus' = 500 /\ nextVal' = nextVal + 1 /\ UNCHANGED <<api_keys, call>>
       ELSE /\ lock[k] = 0
            /\ nextVal' = nextVal + 1
            /\ api_keys' = [api_keys EXCEPT ![k] = RegenerateRow(@, nextVal + 1)]
            /\ call' = Disturb(call, 0, k)
            /\ lastStatus' = 200

\* ---- the /apikeys/:id routes as concurrent requests (routes/apikeys.js): PUT,
\* regenerate and reset-usage first look the key up among the caller's keys
\* (getUserApiKeys), then write with WHERE id = :id AND user_id = caller; DELETE is
\* one statement.  A deleted row is NoRow; the id 0 names no key.
IdleRoute ==
    [pc |-> "idle", op |-> "", u |-> 0, id |-> 0, act |-> <<>>, dl |-> <<>>,
     status |-> 0]

RouteOps == {"put", "regenerate", "reset-usage"}
RouteIds == Keys \cup {0}

\* A WHERE clause that matches on the id alone.
RowMatchesIdOnly(id, u) == id \in Keys /\ api_keys[id] # NoRow

\* WHERE id = $1 AND user_id = $2
RowMatches(id, u) == id \in Keys /\ api_keys[id] # NoRow /\ api_keys[id].user_id = u

\* (await database.getUserApiKeys(userId)).find(key => key.id === keyId)
FindOwnKey(id, u) == id \in Keys /\ api_keys[id] # NoRow /\ api_keys[id].user_id = u

\* The row after the UPDATE of the call c.
RouteWritten(row, c, v) ==
    IF c.op = "put" THEN PutRow(row, c.act, c.dl)
    ELSE IF c.op = "regenerate" THEN RegenerateRow(row, v)
    ELSE ResetUsageRow(row, today)

\* A request arrives with the token of user u: the key is looked up among u's keys.
RouteCheck(p, u, op, id, act, dl) ==
    LET c == [IdleRoute EXCEPT !.op = op, !.u = u, !.id = id, !.act = act, !.dl = dl]
    IN  /\ rcall[p].pc \in {"idle", "done"}
        /\ routeReqs < MaxRouteCalls
        /\ op = "put" \/ (act = <<>> /\ dl = <<>>)
        /\ routeReqs' = routeReqs + 1
        /\ rcall' = [rcall EXCEPT ![p] =
                        IF FindOwnKey(id, u) THEN [c EXCEPT !.pc = "write"]
                        ELSE [c EXCEPT !.pc = "done", !.status = 404]]
        /\ UNCHANGED <<variant, today, api_keys, users, lock, call, nextVal, lastStatus,
                       counted, lastIncDay, usageMode, req, nReqs, usage_logs, served,
                       tokens, requests, clock, userEdits, limiter, rateLog,
                       sessions, reg, proxy, resets>>

\* The write of a request that passed the look-up: database.pool exists only in the
\* PostgreSQL store; a PUT without fields is answered 400; the UPDATE that matches
\* no row is answered 404.
RouteWrite(p) ==
    LET c == rcall[p]
        fresh == nextVal + 1
    IN  /\ c.pc = "write"
        /\ c.op = "regenerate" => nextVal < NKeys + MaxRouteCalls
        /\ nextVal' = IF c.op = "regenerate" THEN fresh ELSE nextVal
        /\ IF variant # "pg"
           THEN /\ rcall' = [rcall EXCEPT ![p] = [c EXCEPT !.pc = "done", !.status = 500]]
                /\ UNCHANGED <<api_keys, counted>>
           ELSE IF c.op = "put" /\ c.act = <<>> /\ c.dl = <<>>
           THEN /\ rcall' = [rcall EXCEPT ![p] = [c EXCEPT !.pc = "done", !.status = 400]]
                /\ UNCHANGED <<api_keys, counted>>
           ELSE IF ~RowMatches(c.id, c.u)
           THEN /\ rcall' = [rcall EXCEPT ![p] = [c EXCEPT !.pc = "done", !.status = 404]]
                /\ UNCHANGED <<api_keys, counted>>
           ELSE /\ api_keys' = [api_keys EXCEPT ![c.id] = RouteWritten(@, c, fresh)]
                /\ counted' = IF c.op = "reset-usage"
                              THEN [counted EXCEPT ![c.id] = 0] ELSE counted
                /\ rcall' = [rcall EXCEPT ![p] = [c EXCEPT !.pc = "done", !.status = 200]]
        /\ UNCHANGED <<variant, today, users, lock, call, lastStatus, routeReqs,
                       lastIncDay, usageMode, req, nReqs, usage_logs, served,
                       tokens, requests, clock, userEdits, limiter, rateLog,
                       sessions, reg, proxy, resets>>

\* DELETE /:id: deleteApiKey(keyId, userId), one DELETE .. WHERE id AND user_id.
RouteDelete(p, u, id) ==
    LET c == [IdleRoute EXCEPT !.op = "delete", !.u = u, !.id = id, !.pc = "done"]
    IN  /\ rcall[p].pc \in {"idle", "done"}
        /\ routeReqs < MaxRouteCalls
        /\ routeReqs' = routeReqs + 1
        /\ IF RowMatches(id, u)
           THEN /\ api_keys' = [api_keys EXCEPT ![id] = NoRow]
                /\ rcall' = [rcall EXCEPT ![p] = [c EXCEPT !.status = 200]]
           ELSE /\ rcall' = [rcall EXCEPT ![p] = [c EXCEPT !.status = 404]]
                /\ UNCHANGED api_keys
        /\ UNCHANGED <<variant, today, users, lock, call, nextVal, lastStatus,
                       counted, lastIncDay, usageMode, req, nReqs, usage_logs, served,
                       tokens, requests, clock, userEdits, limiter, rateLog,
                       sessions, reg, proxy, resets>>

\* ---- authenticateApiKey (middleware/auth.js).  The store module the middleware
\* requires (findApiKeyByValue, updateApiKeyUsage, logUsage with one entry object)
\* is not among the sources; its functions follow the store interface: a lookup by
\* key value, an atomic usage update returning {requests_today, daily_limit}, and a
\* log append.  Requests are handled one after another; every await is a step.
NoData == [none |-> TRUE]
NoRes == [none |-> TRUE]
NoUsage == [none |-> TRUE]
NoUser == [none |-> TRUE]
NoKey == [none |-> TRUE]
NoSrc == [none |-> TRUE]

\* The key values a request presents: the rows' values and one that no row holds.
Presented == 1..(NKeys + 1)

\* r_apiKey, r_user, usage: req.apiKey, req.user, req.usage
\* sent, sentBody: the calls of the original res.send and the body it was given
\* h_usage: how the store answered updateApiKeyUsage ("": not called yet)
\* h_log, h_sendlog: how logUsage ended in the middleware and in the wrapped
\*                   res.send ("": not called)
\* h_req: the number of the request
\* mw: the middleware handling the request; nexts: the calls of next()
\* h_lookup, h_user: how the store answered findApiKeyByValue and findUserById in
\*                   optionalApiKey ("": not called)
\* token: the JWT of the Authorization header; h_verify: how jwt.verify ended
\* h_src: the X-API-Key header, the Authorization header and the api_key query
\*        parameter of the request, where the model draws them
IdleReq ==
    [pc |-> "idle", mw |-> "authenticateApiKey", nexts |-> 0, h_lookup |-> "",
     h_user |-> "", token |-> <<>>, h_verify |-> "", h_src |-> NoSrc,
     apiKey |-> <<>>, keyData |-> NoRow, usageResult |-> NoSel,
     r_apiKey |-> NoKey, r_user |-> NoUser,
     usage |-> NoUsage, res |-> NoRes, nexted |-> FALSE, sent |-> 0, sentBody |-> <<>>,
     h_now |-> -1, h_nth |-> 0, h_rows |-> <<>>, h_logs |-> <<>>, h_usage |-> "",
     h_log |-> "", h_sendlog |-> "", h_req |-> 0]

\* res.status(s).json({ status: false, code, data })
Response(s, code, data) == [status |-> s, code |-> code, data |-> data]

\* store.findApiKeyByValue(key) -> ApiKeyRow?: the row holding the value, with its id
\* and the owner's is_active as user_active.
FindApiKeyByValue(v) ==
    IF \E k \in Keys : api_keys[k] # NoRow /\ api_keys[k].key_value = v
    THEN LET k == CHOOSE j \in Keys : api_keys[j] # NoRow /\ api_keys[j].key_value = v
         IN  [id |-> k, user_id |-> api_keys[k].user_id,
              key_value |-> api_keys[k].key_value,
              is_active |-> api_keys[k].is_active,
              daily_limit |-> api_keys[k].daily_limit,
              expires_at |-> api_keys[k].expires_at,
              user_active |-> users[api_keys[k].user_id].is_active]
    ELSE NoRow

\* keyData.expires_at && new Date(keyData.expires_at) < new Date(), at date granularity
Expired(expires_at, now) == expires_at # <<>> /\ expires_at[1] < now

\* A check that answers AUTH_FAILED where no row was found.
AuthCheckNoRow(kd, now) ==
    IF kd = NoRow THEN Response(500, "AUTH_FAILED", NoData)
    ELSE IF kd.is_active # 1 THEN Response(401, "API_KEY_DEACTIVATED", NoData)
    ELSE IF Expired(kd.expires_at, now)
    THEN Response(401, "API_KEY_EXPIRED", [expires_at |-> kd.expires_at])
    ELSE IF kd.user_active # 1 THEN Response(401, "USER_INACTIVE", NoData)
    ELSE NoRes

\* A check that looks at the expiry before is_active.
AuthCheckExpiryFirst(kd, now) ==
    IF kd = NoRow THEN Response(401, "INVALID_API_KEY", NoData)
    ELSE IF Expired(kd.expires_at, now)
    THEN Response(401, "API_KEY_EXPIRED", [expires_at |-> kd.expires_at])
    ELSE IF kd.is_active # 1 THEN Response(401, "API_KEY_DEACTIVATED", NoData)
    ELSE IF kd.user_active # 1 THEN Response(401, "USER_INACTIVE", NoData)
    ELSE NoRes

\* The rejections after the lookup, in the order of the code; NoRes: none applies.
AuthCheck(kd, now) ==
    IF kd = NoRow THEN Response(401, "INVALID_API_KEY", NoData)
    ELSE IF kd.is_active # 1 THEN Response(401, "API_KEY_DEACTIVATED", NoData)
    ELSE IF Expired(kd.expires_at, now)
    THEN Response(401, "API_KEY_EXPIRED", [expires_at |-> kd.expires_at])
    ELSE IF kd.user_active # 1 THEN Response(401, "USER_INACTIVE", NoData)
    ELSE NoRes

\* store.updateApiKeyUsage(keyId): the day reset, then the count.  The interface
\* leaves open whether a call at the limit is still counted: "unconditional" counts
\* every call, "conditional" only calls below the limit.
UpdateUsageRow(row, d, mode) ==
    LET r == ResetRow(row, d)
    IN  IF mode = "unconditional" \/ r.requests_today < r.daily_limit
        THEN [r EXCEPT !.requests_today = @ + 1]
        ELSE r

\* data of the 429 response: { limit: daily_limit, used: requests_today, remaining: 0 }
LimitData(u) == [limit |-> u.daily_limit, used |-> u.requests_today, remaining |-> 0]

Max0(n) == IF n < 0 THEN 0 ELSE n

\* req.usage = { used, limit, remaining: Math.max(0, daily_limit - requests_today) }
UsageOf(u) ==
    [used |-> u.requests_today, limit |-> u.daily_limit,
     remaining |-> Max0(u.daily_limit - u.requests_today)]

\* How a store call of the middleware ends: it answers, it answers with no result,
\* it throws an error whose message includes 'connection', it throws another error.
StoreOutcomes == {"ok", "none", "conn", "error"}

\* catch (error): 503 SERVICE_UNAVAILABLE for a connection error, else 500 AUTH_FAILED
CaughtError(out) ==
    IF out = "conn" THEN Response(503, "SERVICE_UNAVAILABLE", NoData)
    ELSE Response(500, "AUTH_FAILED", NoData)

\* A quota check that lets the request through when the store gives no result.
AfterUsageFailOpen(r, out, u, nth) ==
    IF out \in {"conn", "error"}
    THEN [r EXCEPT !.pc = "done", !.h_usage = out, !.res = CaughtError(out)]
    ELSE IF out = "ok" /\ u.requests_today > u.daily_limit
    THEN [r EXCEPT !.pc = "done", !.h_usage = out, !.usageResult = u, !.h_nth = nth,
                   !.res = Response(429, "RATE_LIMIT_EXCEEDED", LimitData(u))]
    ELSE [r EXCEPT !.pc = "user", !.h_usage = out, !.usageResult = u, !.h_nth = nth]

\* A quota check that answers every store failure with USAGE_CHECK_FAILED.
AfterUsageOneCode(r, out, u, nth) ==
    IF out # "ok"
    THEN [r EXCEPT !.pc = "done", !.h_usage = out,
                   !.res = Response(500, "USAGE_CHECK_FAILED", NoData)]
    ELSE IF u.requests_today > u.daily_limit
    THEN [r EXCEPT !.pc = "done", !.h_usage = out, !.usageResult = u, !.h_nth = nth,
                   !.res = Response(429, "RATE_LIMIT_EXCEEDED", LimitData(u))]
    ELSE [r EXCEPT !.pc = "user", !.h_usage = out, !.usageResult = u, !.h_nth = nth]

\* The request after updateApiKeyUsage ended with `out`: a throw goes to the catch,
\* no result is answered USAGE_CHECK_FAILED, a count over the limit 429.
AfterUsage(r, out, u, nth) ==
    IF out \in {"conn", "error"}
    THEN [r EXCEPT !.pc = "done", !.h_usage = out, !.res = CaughtError(out)]
    ELSE IF out = "none"
    THEN [r EXCEPT !.pc = "done", !.h_usage = out,
                   !.res = Response(500, "USAGE_CHECK_FAILED", NoData)]
    ELSE IF u.requests_today > u.daily_limit
    THEN [r EXCEPT !.pc = "done", !.h_usage = out, !.usageResult = u, !.h_nth = nth,
                   !.res = Response(429, "RATE_LIMIT_EXCEEDED", LimitData(u))]
    ELSE [r EXCEPT !.pc = "user", !.h_usage = out, !.usageResult = u, !.h_nth = nth]

\* The request after the key source has given v (<<>>: no key), as number n.
AuthReceived(v, n) ==
    IF v = <<>>
    THEN [IdleReq EXCEPT !.pc = "done", !.h_req = n,
                         !.res = Response(401, "API_KEY_MISSING", NoData),
                         !.h_rows = api_keys, !.h_logs = usage_logs]
    ELSE [IdleReq EXCEPT !.pc = "lookup", !.apiKey = v, !.h_req = n,
                         !.h_rows = api_keys, !.h_logs = usage_logs]

\* A request arrives; without a key it is answered at once.
AuthReceive(v) ==
    /\ req.pc \in {"idle", "done"}
    /\ nReqs < MaxReqs
    /\ nReqs' = nReqs + 1
    /\ req' = AuthReceived(v, nReqs + 1)
    /\ UNCHANGED <<ledgerVars, usageMode, extVars, usage_logs, served>>

\* ---- the key source.  A header or query value is a string, written as the
\* sequence of its parts: the part 0 is the text 'Bearer ', a part v > 0 the text
\* of key value v; <<>> is the empty string.  A header or parameter is absent:
\* <<>>, or present with the string s: <<s>>.
BearerPart == <<0>>

XApiKeyValues == {<<>>} \cup {<<v>> : v \in Presented}
AuthorizationValues ==
    {<<>>} \cup {<<v>> : v \in Presented} \cup {BearerPart \o <<v>> : v \in Presented}
QueryValues == {<<>>} \cup {<<v>> : v \in Presented}

\* s.replace('Bearer ', ''): the first occurrence is removed.
RECURSIVE ReplaceBearer(_)
ReplaceBearer(s) ==
    IF s = <<>> THEN <<>>
    ELSE IF <<Head(s)>> = BearerPart THEN Tail(s)
    ELSE <<Head(s)>> \o ReplaceBearer(Tail(s))

\* A key source that looks at the query parameter first.
ApiKeyQueryFirst(x, a, q) ==
    IF q # <<>> /\ q[1] # <<>> THEN q[1]
    ELSE IF x # <<>> /\ x[1] # <<>> THEN x[1]
    ELSE IF a # <<>> /\ ReplaceBearer(a[1]) # <<>> THEN ReplaceBearer(a[1])
    ELSE <<>>

\* req.headers['x-api-key'] || req.headers['authorization']?.replace('Bearer ', '')
\*     || req.query.api_key: the first operand that is neither undefined nor ''.
\* The result <<>> stands for a falsy apiKey.
ApiKey(x, a, q) ==
    IF x # <<>> /\ x[1] # <<>> THEN x[1]
    ELSE IF a # <<>> /\ ReplaceBearer(a[1]) # <<>> THEN ReplaceBearer(a[1])
    ELSE IF q # <<>> /\ q[1] # <<>> THEN q[1]
    ELSE <<>>

\* A request arrives at authenticateApiKey with the given headers and parameter.
AuthReceiveFrom(x, a, q) ==
    /\ req.pc \in {"idle", "done"}
    /\ nReqs < MaxReqs
    /\ nReqs' = nReqs + 1
    /\ req' = [AuthReceived(ApiKey(x, a, q), nReqs + 1) EXCEPT
                   !.h_src = [x |-> x, a |-> a, q |-> q]]
    /\ UNCHANGED <<ledgerVars, usageMode, extVars, usage_logs, served>>

\* findApiKeyByValue has answered: the checks up to the call of updateApiKeyUsage.
AuthLookup ==
    LET kd == FindApiKeyByValue(req.apiKey[1])
        rej == AuthCheck(kd, today)
    IN  /\ req.pc = "lookup"
        /\ req' = IF rej # NoRes
                  THEN [req EXCEPT !.pc = "done", !.keyData = kd, !.res = rej,
                                   !.h_now = today]
                  ELSE [req EXCEPT !.pc = "usage", !.keyData = kd, !.h_now = today]
        /\ UNCHANGED <<ledgerVars, usageMode, extVars, nReqs, usage_logs, served>>

\* updateApiKeyUsage has ended with `out` (a failed call leaves the row as it was):
\* the limit check.
AuthUsage(out) ==
    LET k == req.keyData.id
        row == UpdateUsageRow(api_keys[k], today, usageMode)
        u == SelectUsage(row)
        nth == (IF api_keys[k].last_reset_date < today THEN 0 ELSE served[k]) + 1
    IN  /\ req.pc = "usage"
        /\ api_keys' = IF out = "ok" THEN [api_keys EXCEPT ![k] = row] ELSE api_keys
        /\ served' = IF out = "ok" THEN [served EXCEPT ![k] = nth] ELSE served
        /\ req' = IF out = "ok"
                  THEN AfterUsage(req, out, u, nth)
                  ELSE AfterUsage(req, out, SelectUsage(api_keys[k]), 0)
        /\ UNCHANGED <<variant, today, users, lock, call, nextVal, lastStatus, routeReqs,
                       counted, lastIncDay, usageMode, extVars, nReqs, usage_logs>>

\* findUserById has answered with the owner's row (api_keys.user_id references
\* users): req.apiKey, req.user and req.usage are attached.
AuthUser ==
    /\ req.pc = "user"
    /\ req' = [req EXCEPT !.pc = "log",
                          !.r_apiKey = [id |-> req.keyData.id,
                                        daily_limit |-> req.keyData.daily_limit],
                          !.r_user = [id |-> req.keyData.user_id],
                          !.usage = UsageOf(req.usageResult)]
    /\ UNCHANGED <<ledgerVars, usageMode, extVars, nReqs, usage_logs, served>>

\* How a logUsage call ends: the row is written, the promise rejects, the call throws.
LogOutcomes == {"ok", "reject", "throw"}

\* The usage_logs row of a logUsage call of request r; status_code is NULL: <<>>.
LogEntry(r, status_code) ==
    [user_id |-> r.r_user.id, api_key_id |-> r.r_apiKey.id,
     status_code |-> status_code, req |-> r.h_req]

\* usage_logs after a logUsage call that ended with `out`.
LogUsage(logs, entry, out) == IF out = "ok" THEN Append(logs, entry) ELSE logs

\* A middleware that answers 500 when its logUsage call fails.
AfterLogStrict(r, out) ==
    IF out = "ok"
    THEN [r EXCEPT !.pc = "done", !.nexted = TRUE, !.nexts = @ + 1, !.h_log = out]
    ELSE [r EXCEPT !.pc = "done", !.h_log = out,
                   !.res = Response(500, "AUTH_FAILED", NoData)]

\* try { await database.logUsage(..) } catch (logError) { .. }  next()
AfterLog(r, out) ==
    [r EXCEPT !.pc = "done", !.nexted = TRUE, !.nexts = @ + 1, !.h_log = out]

\* The awaited logUsage call has ended with `out`: next().
AuthLog(out) ==
    /\ req.pc = "log"
    /\ usage_logs' = LogUsage(usage_logs, LogEntry(req, <<>>), out)
    /\ req' = AfterLog(req, out)
    /\ UNCHANGED <<ledgerVars, usageMode, extVars, nReqs, served>>

\* ---- authenticateToken (middleware/auth.js) and generateToken (routes/auth.js).
\* findUserById, updateUser and deleteUser belong to the store module the middleware
\* and the routes require, which is not among the sources.
Plans == {"free", "pro"}
Emails == {"a@x", "b@x"}

\* expiresIn: the life of a token, in days of the model
TokenTTL == 1

\* jwt.sign({ id, email, plan: user.plan || 'free' }, secret, { expiresIn })
GenerateToken(u, now) ==
    [id |-> u, email |-> users[u].email, plan |-> users[u].plan,
     exp |-> now + TokenTTL, sig_ok |-> TRUE]

\* A string that is no JWT.
Malformed == [id |-> 0, email |-> "", plan |-> "", exp |-> 0, sig_ok |-> FALSE]

\* The Authorization headers of a request: none, one without a second word, and
\* 'Bearer <token>' with a signed token, a signed token altered afterwards, or a
\* string that is no JWT.
AuthHeaders ==
    {[kind |-> "absent"], [kind |-> "scheme"]}
        \cup {[kind |-> "bearer", token |-> t] : t \in tokens \cup {Malformed}}
        \cup {[kind |-> "bearer", token |-> [t EXCEPT !.sig_ok = FALSE]] : t \in tokens}

\* authHeader && authHeader.split(' ')[1]
TokenOf(h) == IF h.kind = "bearer" THEN <<h.token>> ELSE <<>>

\* A verification that looks at the expiry before the signature.
VerifyTokenExpiryFirst(t, now) ==
    IF now >= t.exp THEN "TokenExpiredError"
    ELSE IF ~t.sig_ok THEN "JsonWebTokenError"
    ELSE "ok"

\* A verification that also asks for a session of the token's user.
VerifyTokenWithSession(t, now) ==
    IF ~t.sig_ok \/ ~\E s \in sessions : s.user_id = t.id THEN "JsonWebTokenError"
    ELSE IF now >= t.exp THEN "TokenExpiredError"
    ELSE "ok"

\* jwt.verify(token, secret): format and signature, then the expiry.
VerifyToken(t, now) ==
    IF ~t.sig_ok THEN "JsonWebTokenError"
    ELSE IF now >= t.exp THEN "TokenExpiredError"
    ELSE "ok"

\* catch (error) of authenticateToken
TokenCaught(name) ==
    IF name = "TokenExpiredError" THEN Response(401, "TOKEN_EXPIRED", NoData)
    ELSE IF name = "JsonWebTokenError" THEN Response(403, "INVALID_TOKEN", NoData)
    ELSE Response(500, "AUTH_FAILED", NoData)

\* store.findUserById(id) -> User?
FindUserById(id) == IF id \in Users THEN users[id] ELSE NoRow

\* A principal built from the claims of the token.
PrincipalFromClaims(id, user, t) ==
    [id |-> id, email |-> t.email, plan |-> t.plan,
     is_verified |-> (user.is_verified = 1), is_active |-> (user.is_active = 1)]

\* req.user = { id, email, full_name, plan, is_verified: === 1, is_active: === 1 }
PrincipalOf(id, user, t) ==
    [id |-> id, email |-> user.email, plan |-> user.plan,
     is_verified |-> (user.is_verified = 1), is_active |-> (user.is_active = 1)]

\* The login route signs a token for an active user.
IssueToken(u) ==
    /\ Cardinality(tokens) < MaxTokens
    /\ users[u] # NoRow /\ users[u].is_active = 1
    /\ tokens' = tokens \cup {GenerateToken(u, today)}
    /\ UNCHANGED <<ledgerVars, usageMode, req, nReqs, usage_logs, served, requests,
                   clock, userEdits, limiter, rateLog, rcall,
                   sessions, reg, proxy, resets>>

\* store.updateUser(id, fields): one column of the row is written.
UpdateUser(u, col, val) ==
    /\ userEdits < MaxUserEdits
    /\ users[u] # NoRow
    /\ users[u][col] # val
    /\ userEdits' = userEdits + 1
    /\ users' = [users EXCEPT ![u] = [@ EXCEPT ![col] = val]]
    /\ UNCHANGED <<variant, today, api_keys, lock, call, nextVal, lastStatus, routeReqs,
                   counted, lastIncDay, usageMode, req, nReqs, usage_logs, served,
                   tokens, requests, clock, limiter, rateLog, rcall,
                   sessions, reg, proxy, resets>>

\* store.deleteUser(id)
DeleteUser(u) ==
    /\ userEdits < MaxUserEdits
    /\ users[u] # NoRow
    /\ userEdits' = userEdits + 1
    /\ users' = [users EXCEPT ![u] = NoRow]
    /\ UNCHANGED <<variant, today, api_keys, lock, call, nextVal, lastStatus, routeReqs,
                   counted, lastIncDay, usageMode, req, nReqs, usage_logs, served,
                   tokens, requests, clock, limiter, rateLog, rcall,
                   sessions, reg, proxy, resets>>

\* A request arrives at authenticateToken: the token is taken from the header and
\* verified; the next step is the answer of findUserById.
TokReceive(h) ==
    LET r == [IdleReq EXCEPT !.mw = "authenticateToken", !.token = TokenOf(h),
                             !.h_req = nReqs + 1, !.h_now = today]
        v == VerifyToken(h.token, today)
    IN  /\ req.pc \in {"idle", "done"}
        /\ nReqs < MaxReqs
        /\ nReqs' = nReqs + 1
        /\ req' = IF TokenOf(h) = <<>>
                  THEN [r EXCEPT !.pc = "done",
                                 !.res = Response(401, "TOKEN_REQUIRED", NoData)]
                  ELSE IF v # "ok"
                  THEN [r EXCEPT !.pc = "done", !.h_verify = v, !.res = TokenCaught(v)]
                  ELSE [r EXCEPT !.pc = "t_user", !.h_verify = v]
        /\ UNCHANGED <<ledgerVars, usageMode, extVars, usage_logs, served>>

\* findUserById(decoded.id) has ended with `out`: a throw goes to the catch.
TokUser(out) ==
    LET t == req.token[1]
        user == IF out = "ok" THEN FindUserById(t.id) ELSE NoRow
        r == [req EXCEPT !.pc = "done", !.h_user = out]
    IN  /\ req.pc = "t_user"
        /\ req' = IF out \in {"conn", "error"}
                  THEN [r EXCEPT !.res = TokenCaught("Error")]
                  ELSE IF user = NoRow
                  THEN [r EXCEPT !.res = Response(401, "USER_NOT_FOUND", NoData)]
                  ELSE IF user.is_active # 1
                  THEN [r EXCEPT !.res = Response(401, "ACCOUNT_DEACTIVATED", NoData)]
                  ELSE [r EXCEPT !.r_user = PrincipalOf(t.id, user, t),
                                 !.nexted = TRUE, !.nexts = @ + 1]
        /\ UNCHANGED <<ledgerVars, usageMode, extVars, nReqs, usage_logs, served>>

\* ---- the plan gates isAdmin and requirePremiumPlan (middleware/auth.js).  A gate
\* runs after authenticateToken has called next(), or on a route that mounts no
\* authentication in front of it; it has no await.
GatePlans == {"free", "basic", "pro", "enterprise", "admin"}

\* const premiumPlans = ['basic', 'pro', 'enterprise', 'admin']
premiumPlans == <<"basic", "pro", "enterprise", "admin">>

NotAdmin(p) == p # "admin"

\* A gate that lets every paid plan through, whatever the gate.
PermittedAnyPaid(g, plan) == \E i \in DOMAIN premiumPlans : premiumPlans[i] = plan

\* premiumPlans.includes(plan); req.user.plan === 'admin'
Permitted(g, plan) ==
    IF g = "isAdmin" THEN plan = "admin"
    ELSE \E i \in DOMAIN premiumPlans : premiumPlans[i] = plan

\* The 403 response of a gate.
Forbidden(g, plan) ==
    IF g = "isAdmin" THEN Response(403, "ADMIN_REQUIRED", NoData)
    ELSE Response(403, "PREMIUM_REQUIRED",
                  [current_plan |-> plan,
                   required_plans |-> SelectSeq(premiumPlans, NotAdmin)])

\* The request after gate g has handled it with req.user = principal.
Gated(g, principal, n) ==
    LET r == [IdleReq EXCEPT !.mw = g, !.pc = "done", !.h_req = n, !.r_user = principal]
    IN  IF principal = NoUser
        THEN [r EXCEPT !.res = Response(401, "AUTH_REQUIRED", NoData)]
        ELSE IF Permitted(g, principal.plan)
        THEN [r EXCEPT !.nexted = TRUE, !.nexts = 1]
        ELSE [r EXCEPT !.res = Forbidden(g, principal.plan)]

\* Gate g handles the request authenticateToken has let through.
Gate(g) ==
    /\ req.mw = "authenticateToken" /\ req.pc = "done" /\ req.nexted
    /\ req' = Gated(g, req.r_user, req.h_req)
    /\ UNCHANGED <<ledgerVars, usageMode, extVars, nReqs, usage_logs, served>>

\* Gate g handles a request that no authentication middleware has seen.
GateBare(g) ==
    /\ req.pc \in {"idle", "done"}
    /\ nReqs < MaxReqs
    /\ nReqs' = nReqs + 1
    /\ req' = Gated(g, NoUser, nReqs + 1)
    /\ UNCHANGED <<ledgerVars, usageMode, extVars, usage_logs, served>>

\* ---- optionalApiKey (middleware/auth.js): the same checks, but a request that
\* fails one of them goes on without a principal.
\* next() of optionalApiKey, at the end of the try block or in its catch.
OptNext(r) == [r EXCEPT !.pc = "done", !.nexted = TRUE, !.nexts = @ + 1]

\* if (keyData && keyData.is_active === 1) { isExpired = ..; if (!isExpired) ..
OptKeyUsable(kd, now) ==
    kd # NoRow /\ kd.is_active = 1 /\ ~Expired(kd.expires_at, now)

\* if (usageResult && usageResult.requests_today <= keyData.daily_limit)
OptWithinLimit(out, u, kd) == out = "ok" /\ u.requests_today <= kd.daily_limit

\* An owner check that attaches the principal whatever the owner's is_active.
OptUserUsableAnyOwner(out, user) == out = "ok"

\* if (user && user.is_active === 1)
OptUserUsable(out, user) == out = "ok" /\ user.is_active = 1

\* The request of optionalApiKey after the key source has given v, as number n.
OptReceived(v, n) ==
    LET r == [IdleReq EXCEPT !.mw = "optionalApiKey", !.apiKey = v, !.h_req = n,
                             !.h_rows = api_keys, !.h_logs = usage_logs]
    IN  IF v = <<>> THEN OptNext(r) ELSE [r EXCEPT !.pc = "o_lookup"]

\* A request arrives at optionalApiKey; without a key it goes on at once.
OptReceive(v) ==
    /\ req.pc \in {"idle", "done"}
    /\ nReqs < MaxReqs
    /\ nReqs' = nReqs + 1
    /\ req' = OptReceived(v, nReqs + 1)
    /\ UNCHANGED <<ledgerVars, usageMode, extVars, usage_logs, served>>

\* A request arrives at optionalApiKey with the given headers and parameter.
OptReceiveFrom(x, a, q) ==
    /\ req.pc \in {"idle", "done"}
    /\ nReqs < MaxReqs
    /\ nReqs' = nReqs + 1
    /\ req' = [OptReceived(ApiKey(x, a, q), nReqs + 1) EXCEPT
                   !.h_src = [x |-> x, a |-> a, q |-> q]]
    /\ UNCHANGED <<ledgerVars, usageMode, extVars, usage_logs, served>>

\* findApiKeyByValue has ended with `out`: a throw goes to the catch.
OptLookup(out) ==
    LET kd == IF out = "ok" THEN FindApiKeyByValue(req.apiKey[1]) ELSE NoRow
        r == [req EXCEPT !.keyData = kd, !.h_now = today, !.h_lookup = out]
    IN  /\ req.pc = "o_lookup"
        /\ req' = IF OptKeyUsable(kd, today) THEN [r EXCEPT !.pc = "o_usage"]
                  ELSE OptNext(r)
        /\ UNCHANGED <<ledgerVars, usageMode, extVars, nReqs, usage_logs, served>>

\* updateApiKeyUsage has ended with `out` (a failed call leaves the row as it was).
OptUsage(out) ==
    LET k == req.keyData.id
        row == UpdateUsageRow(api_keys[k], today, usageMode)
        u == SelectUsage(row)
        nth == (IF api_keys[k].last_reset_date < today THEN 0 ELSE served[k]) + 1
        r == IF out = "ok"
             THEN [req EXCEPT !.usageResult = u, !.h_nth = nth, !.h_usage = out]
             ELSE [req EXCEPT !.h_usage = out]
    IN  /\ req.pc = "o_usage"
        /\ api_keys' = IF out = "ok" THEN [api_keys EXCEPT ![k] = row] ELSE api_keys
        /\ served' = IF out = "ok" THEN [served EXCEPT ![k] = nth] ELSE served
        /\ req' = IF OptWithinLimit(out, u, req.keyData) THEN [r EXCEPT !.pc = "o_user"]
                  ELSE OptNext(r)
        /\ UNCHANGED <<variant, today, users, lock, call, nextVal, lastStatus, routeReqs,
                       counted, lastIncDay, usageMode, extVars, nReqs, usage_logs>>

\* findUserById has ended with `out`: req.apiKey, req.user and req.usage are attached
\* for an active owner.
OptUser(out) ==
    LET user == users[req.keyData.user_id]
        r == [req EXCEPT !.h_user = out]
    IN  /\ req.pc = "o_user"
        /\ req' = IF OptUserUsable(out, user)
                  THEN [r EXCEPT !.pc = "o_log",
                                 !.r_apiKey = [id |-> req.keyData.id,
                                               daily_limit |-> req.keyData.daily_limit],
                                 !.r_user = [id |-> req.keyData.user_id],
                                 !.usage = [used |-> req.usageResult.requests_today,
                                            limit |-> req.keyData.daily_limit,
                                            remaining |->
                                                Max0(req.keyData.daily_limit
                                                     - req.usageResult.requests_today)]]
                  ELSE OptNext(r)
        /\ UNCHANGED <<ledgerVars, usageMode, extVars, nReqs, usage_logs, served>>

\* The awaited logUsage call of optionalApiKey has ended with `out`: next().
OptLog(out) ==
    /\ req.pc = "o_log"
    /\ usage_logs' = LogUsage(usage_logs, LogEntry(req, <<>>), out)
    /\ req' = AfterLog(req, out)
    /\ UNCHANGED <<ledgerVars, usageMode, extVars, nReqs, served>>

\* ---- responseTimeLogger (middleware/auth.js): res.send is wrapped.  The body the
\* downstream handler sends for an admitted request:
HandlerBody == Response(200, "OK", NoData)

\* if (req.apiKey && req.user)
HasPrincipal(r) == r.r_apiKey # NoKey /\ r.r_user # NoUser

\* A wrapper whose logUsage call is outside the try: a throw skips the original send.
SendCallsUnguarded(out) == IF out = "throw" THEN 0 ELSE 1

\* The calls of originalSend made by one call of the wrapped res.send whose
\* logUsage call ended with `out`: return originalSend.call(this, body).
SendCalls(out) == 1

\* The response is sent (by the handler, or by the middleware that rejected): the
\* wrapped res.send calls logUsage without awaiting it, then the original send.
Send(out) ==
    LET body == IF req.nexted THEN HandlerBody ELSE req.res
    IN  /\ req.pc = "done"
        /\ req.sent = 0
        /\ HasPrincipal(req) \/ out = "ok"
        /\ usage_logs' = IF HasPrincipal(req)
                         THEN LogUsage(usage_logs, LogEntry(req, <<body.status>>), out)
                         ELSE usage_logs
        /\ req' = [req EXCEPT !.sent = @ + SendCalls(out),
                              !.sentBody = IF SendCalls(out) > 0 THEN <<body>> ELSE @,
                              !.h_sendlog = IF HasPrincipal(req) THEN out ELSE ""]
        /\ UNCHANGED <<ledgerVars, usageMode, extVars, nReqs, served>>

\* ---- rateLimiter (middleware/auth.js).  The middleware has no await: a request
\* is handled in one step.  A client is an api key id (req.apiKey set) or the ip.
RateClients == {<<"key", k>> : k \in Keys} \cup {<<"ip", 0>>}

\* A window test that keeps the request made exactly windowMs ago.
InWindowInclusive(time, now, windowMs) == time >= now - windowMs

\* A window test that forgets a request one instant too early.
InWindowShort(time, now, windowMs) == time > now - windowMs + 1

\* time > windowStart, windowStart = now - windowMs
InWindow(time, now, windowMs) == time > now - windowMs

\* reqs.filter(time => time > now - windowMs)
RECURSIVE FilterTimes(_, _, _)
FilterTimes(reqs, now, windowMs) ==
    IF reqs = <<>> THEN <<>>
    ELSE IF InWindow(Head(reqs), now, windowMs)
    THEN <<Head(reqs)>> \o FilterTimes(Tail(reqs), now, windowMs)
    ELSE FilterTimes(Tail(reqs), now, windowMs)

\* An admission that leaves the list as it was.
PushNowForgotten(userRequests, now) == userRequests

\* userRequests.push(now)
PushNow(userRequests, now) == Append(userRequests, now)

\* requests.get(key) after `if (!requests.has(key)) requests.set(key, [])`
RequestsOf(m, key) == IF key \in DOMAIN m THEN m[key] ELSE <<>>

\* requests.set(key, value)
MapSet(m, key, value) == [c \in DOMAIN m \cup {key} |-> IF c = key THEN value ELSE m[c]]

\* A clean-up that empties every list.
CleanUpAll(m, now, windowMs) == [c \in DOMAIN m |-> <<>>]

\* A clean-up that deletes the entries whose list has become empty.
CleanUpDropEmpty(m, now, windowMs) ==
    [c \in {d \in DOMAIN m : FilterTimes(m[d], now, 2 * windowMs) # <<>>} |->
        FilterTimes(m[c], now, 2 * windowMs)]

\* The periodic clean-up: every entry keeps the times of the last two windows.
CleanUp(m, now, windowMs) == [c \in DOMAIN m |-> FilterTimes(m[c], now, 2 * windowMs)]

\* A rejection that records the time of the attempt.
PushOnReject(m, key, now) == MapSet(m, key, Append(RequestsOf(m, key), now))

\* The map after a rejected request: the entry made by requests.set(key, []) where
\* there was none, and no other write.
KeepOnReject(m, key, now) == MapSet(m, key, RequestsOf(m, key))

\* userRequests.length >= limit, userRequests the times of the key in the window
Full(m, key, now) ==
    Len(FilterTimes(RequestsOf(m, key), now, limiter.windowMs)) >= limiter.limit

\* The map after one request of `key` at `now`; clean: Math.random() < 0.01.
Handle(m, key, now, clean) ==
    LET userRequests == FilterTimes(RequestsOf(m, key), now, limiter.windowMs)
        set == MapSet(m, key, PushNow(userRequests, now))
    IN  IF Full(m, key, now) THEN KeepOnReject(m, key, now)
        ELSE IF clean THEN CleanUp(set, now, limiter.windowMs)
        ELSE set

\* data of the 429 response: { limit, window }
RateData(l) == [limit |-> l.limit, window |-> l.windowMs]

\* One request of client `key` goes through rateLimiter; `clean`: Math.random() < 0.01.
RateRequest(key, clean) ==
    LET now == clock
        full == Full(requests, key, now)
        r == [IdleReq EXCEPT !.mw = "rateLimiter", !.pc = "done", !.h_req = nReqs + 1,
                             !.h_now = now]
    IN  /\ nReqs < MaxReqs
        /\ nReqs' = nReqs + 1
        /\ requests' = Handle(requests, key, now, clean)
        /\ req' = IF full
                  THEN [r EXCEPT !.res = Response(429, "RATE_LIMITED", RateData(limiter))]
                  ELSE [r EXCEPT !.nexted = TRUE, !.nexts = 1]
        /\ rateLog' = Append(rateLog, [key |-> key, time |-> now, admitted |-> ~full,
                                       res |-> req'.res, clean |-> clean /\ ~full])
        /\ UNCHANGED <<ledgerVars, usageMode, usage_logs, served, tokens, clock,
                       userEdits, limiter, rcall, sessions, reg,
                       proxy, resets>>

\* Time passes.
Advance ==
    /\ clock < MaxClock
    /\ clock' = clock + 1
    /\ UNCHANGED <<ledgerVars, usageMode, req, nReqs, usage_logs, served, tokens,
                   requests, userEdits, limiter, rateLog, rcall,
                   sessions, reg, proxy, resets>>

\* ---- POST /auth/register, /auth/login and /auth/logout (routes/auth.js).  Every
\* await of a handler is a step, so the requests of two callers interleave.
\* createUser(user), createApiKey(apiKey) and createSession({..}) belong to the store
\* module the routes require, which is not among the sources; the users table has
\* email UNIQUE, and findUserByEmail compares with =.
MaxSessions == 2

\* expires_at of the default key: a year from now, in days
KeyTTL == 365

\* expiresIn = '7d' of a session: less than a day of the model, in which a token
\* lives TokenTTL
SessionTTL == 0

\* The email of a request body: lower-case, with a capital, and no email at all.
BodyEmails == {"a@x", "A@x", "bad"}

\* The passwords of a request body, six characters or more.
Passwords == {"secret1", "secret2"}

\* body('email').isEmail()
IsEmail(e) == e # "bad"

\* email.toLowerCase().trim(); isEmail() has refused surrounding blanks before
ToLowerCase(e) == IF e = "A@x" THEN "a@x" ELSE e

\* bcrypt.hash(password, 10) and bcrypt.compare(password, hash)
Hash(pw) == <<"bcrypt", pw>>
Compare(pw, h) == h = Hash(pw)

\* store.findUserByEmail(email): SELECT * FROM users WHERE email = $1 (0: no row)
FindUserByEmail(email) ==
    IF \E u \in Users : users[u] # NoRow /\ users[u].email = email
    THEN CHOOSE u \in Users : users[u] # NoRow /\ users[u].email = email
    ELSE 0

\* email VARCHAR(255) UNIQUE: a row holds the email
EmailTaken(e) == \E u \in Users : users[u] # NoRow /\ users[u].email = e

\* uuidv4(): an id no row has
FreshUser == CHOOSE u \in Users : users[u] = NoRow /\ \A v \in Users : users[v] = NoRow => u <= v
FreshKey == CHOOSE k \in Keys : api_keys[k] = NoRow /\ \A j \in Keys : api_keys[j] = NoRow => k <= j
SessionIds == 1..MaxSessions
FreshSession ==
    CHOOSE s \in SessionIds : \A r \in sessions : r.id # s

\* getDailyLimitForPlan(plan)
getDailyLimitForPlan(plan) ==
    IF plan = "free" THEN 100
    ELSE IF plan = "basic" THEN 1000
    ELSE IF plan = "pro" THEN 5000
    ELSE IF plan = "enterprise" THEN 99999
    ELSE 100

\* The user object of the register route; h_email: the email as the body spelled it.
NewUser(email, pw) ==
    [is_active |-> 1, plan |-> "free", email |-> ToLowerCase(email), is_verified |-> 1,
     password |-> Hash(pw), h_email |-> email]

\* The apiKey object of the register route; last_reset_date is the column default.
NewApiKey(u, v, now) ==
    [user_id |-> u, key_value |-> v, is_active |-> 1, daily_limit |-> 100,
     requests_today |-> 0, last_reset_date |-> now, expires_at |-> <<now + KeyTTL>>]

\* The row createSession inserts.
NewSession(id, u, now) == [id |-> id, user_id |-> u, expires_at |-> now + SessionTTL]

\* getUserApiKeys(userId): the ids of the rows of the user
GetUserApiKeys(u) == {k \in Keys : api_keys[k] # NoRow /\ api_keys[k].user_id = u}

\* apiKeys.find(key => key.is_active === 1) || apiKeys[0]; <<>>: undefined
PrimaryApiKey(u) ==
    LET ks == GetUserApiKeys(u)
        act == {k \in ks : api_keys[k].is_active = 1}
        first(S) == CHOOSE k \in S : \A j \in S : k <= j
    IN  IF act # {} THEN <<api_keys[first(act)].key_value>>
        ELSE IF ks # {} THEN <<api_keys[first(ks)].key_value>>
        ELSE <<>>

\* h_taken: a row held the lower-cased email when the request arrived
\* h_same: the login has the email and password of a registration answered before
\* status: the HTTP status of the answer; ok, code: the fields status and code of
\* its body (code <<>>: the body has no such field)
IdleReg ==
    [pc |-> "idle", op |-> "", email |-> "", password |-> "", user |-> 0,
     status |-> 0, ok |-> TRUE, code |-> <<>>, token |-> <<>>, api_key |-> <<>>,
     session_id |-> 0, h_taken |-> FALSE, h_same |-> FALSE]

\* A registration with this email and password has been answered 201.
SameCredentials(email, pw) ==
    \E u \in Users :
        /\ users[u] # NoRow /\ users[u].h_email = email /\ Compare(pw, users[u].password)
        /\ \A p \in Procs : reg[p].user = u => reg[p].pc = "done"
        /\ \E s \in sessions : s.user_id = u

\* Requests that will still insert a session.
Pending == {p \in Procs : reg[p].pc \notin {"idle", "done"}}

\* An answer whose body has status: true whatever the HTTP status.
AnsweredTrue(c, s) == [c EXCEPT !.pc = "done", !.status = s, !.ok = TRUE]

\* res.status(s).json({ status, message, .. }): status is true for 200 and 201 and
\* false for 400, 401 and 500; no body of these routes has a code.
Answered(c, s) == [c EXCEPT !.pc = "done", !.status = s, !.ok = (s < 400)]

\* POST /auth/register arrives: the validation.
RegStart(p, email, pw) ==
    LET c == [IdleReg EXCEPT !.op = "register", !.email = email, !.password = pw,
                             !.h_taken = EmailTaken(ToLowerCase(email))]
    IN  /\ reg[p].pc \in {"idle", "done"}
        /\ Cardinality(sessions) + Cardinality(Pending) < MaxSessions
        /\ reg' = [reg EXCEPT ![p] = IF IsEmail(email) THEN [c EXCEPT !.pc = "r_find"]
                                     ELSE Answered(c, 400)]
        /\ UNCHANGED <<ledgerVars, usageMode, req, nReqs, usage_logs, served, tokens,
                       requests, clock, userEdits, limiter, rateLog, rcall, sessions,
                       proxy, resets>>

\* findUserByEmail(email) has answered: a row is answered 400.
RegFind(p) ==
    LET c == reg[p]
    IN  /\ c.pc = "r_find"
        /\ reg' = [reg EXCEPT ![p] = IF FindUserByEmail(c.email) # 0 THEN Answered(c, 400)
                                     ELSE [c EXCEPT !.pc = "r_user"]]
        /\ UNCHANGED <<ledgerVars, usageMode, req, nReqs, usage_logs, served, tokens,
                       requests, clock, userEdits, limiter, rateLog, rcall, sessions,
                       proxy, resets>>

\* createUser(user): the INSERT; an email the table holds violates UNIQUE, the
\* error goes to the catch, which answers 500.
RegCreateUser(p) ==
    LET c == reg[p]
        row == NewUser(c.email, c.password)
        u == FreshUser
    IN  /\ c.pc = "r_user"
        /\ IF EmailTaken(row.email)
           THEN /\ reg' = [reg EXCEPT ![p] = Answered(c, 500)]
                /\ UNCHANGED users
           ELSE /\ \E v \in Users : users[v] = NoRow
                /\ users' = [users EXCEPT ![u] = row]
                /\ reg' = [reg EXCEPT ![p] = [c EXCEPT !.pc = "r_key", !.user = u]]
        /\ UNCHANGED <<variant, today, api_keys, lock, call, nextVal, lastStatus,
                       routeReqs, counted, lastIncDay, usageMode, req, nReqs, usage_logs,
                       served, tokens, requests, clock, userEdits, limiter, rateLog,
                       rcall, sessions, proxy, resets>>

\* createApiKey(apiKey): the default key of the new user.
RegCreateKey(p) ==
    LET c == reg[p]
        k == FreshKey
        v == nextVal + 1
    IN  /\ c.pc = "r_key"
        /\ \E j \in Keys : api_keys[j] = NoRow
        /\ nextVal' = v
        /\ api_keys' = [api_keys EXCEPT ![k] = NewApiKey(c.user, v, today)]
        /\ reg' = [reg EXCEPT ![p] = [c EXCEPT !.pc = "r_session", !.api_key = <<v>>]]
        /\ UNCHANGED <<variant, today, users, lock, call, lastStatus,
                       routeReqs, counted, lastIncDay, usageMode, req, nReqs, usage_logs,
                       served, tokens, requests, clock, userEdits, limiter, rateLog,
                       rcall, sessions, proxy, resets>>

\* generateToken(savedUser), createSession and the 201 answer.
RegSession(p) ==
    LET c == reg[p]
        t == GenerateToken(c.user, today)
        s == FreshSession
    IN  /\ c.pc = "r_session"
        /\ tokens' = tokens \cup {t}
        /\ sessions' = sessions \cup {NewSession(s, c.user, today)}
        /\ reg' = [reg EXCEPT ![p] = [Answered(c, 201) EXCEPT !.token = <<t>>,
                                                             !.session_id = s]]
        /\ UNCHANGED <<ledgerVars, usageMode, req, nReqs, usage_logs, served,
                       requests, clock, userEdits, limiter, rateLog, rcall, proxy, resets>>

\* POST /auth/login arrives: the validation, findUserByEmail(email), is_active,
\* bcrypt.compare, generateToken and createSession.
LoginStart(p, email, pw) ==
    LET c == [IdleReg EXCEPT !.op = "login", !.email = email, !.password = pw,
                             !.h_same = SameCredentials(email, pw)]
        u == FindUserByEmail(email)
        t == GenerateToken(u, today)
        s == FreshSession
    IN  /\ reg[p].pc \in {"idle", "done"}
        /\ Cardinality(sessions) + Cardinality(Pending) < MaxSessions
        /\ IF ~IsEmail(email)
           THEN /\ reg' = [reg EXCEPT ![p] = Answered(c, 400)]
                /\ UNCHANGED <<tokens, sessions>>
           ELSE IF u = 0 \/ users[u].is_active # 1 \/ ~Compare(pw, users[u].password)
           THEN /\ reg' = [reg EXCEPT ![p] = Answered(c, 401)]
                /\ UNCHANGED <<tokens, sessions>>
           ELSE /\ tokens' = tokens \cup {t}
                /\ sessions' = sessions \cup {NewSession(s, u, today)}
                /\ reg' = [reg EXCEPT ![p] = [c EXCEPT !.pc = "l_keys", !.user = u,
                                                       !.token = <<t>>,
                                                       !.session_id = s]]
        /\ UNCHANGED <<ledgerVars, usageMode, req, nReqs, usage_logs, served,
                       requests, clock, userEdits, limiter, rateLog, rcall, proxy, resets>>

\* getUserApiKeys(user.id) has answered: the 200 answer with the primary key.
LoginKeys(p) ==
    LET c == reg[p]
    IN  /\ c.pc = "l_keys"
        /\ reg' = [reg EXCEPT ![p] = [Answered(c, 200) EXCEPT
                                          !.api_key = PrimaryApiKey(c.user)]]
        /\ UNCHANGED <<ledgerVars, usageMode, req, nReqs, usage_logs, served, tokens,
                       requests, clock, userEdits, limiter, rateLog, rcall, sessions,
                       proxy, resets>>

\* store.deleteSession(id) and store.cleanupExpiredSessions()
DeleteSession(ss, sid) == {s \in ss : <<s.id>> # sid}
CleanupExpiredSessions(ss, now) == {s \in ss : ~(s.expires_at < now)}

\* POST /auth/logout of a request authenticateToken has let through; sid: the
\* X-Session-Id header or body.session_id (<<>>: neither).
Logout(sid) ==
    /\ req.mw = "authenticateToken" /\ req.pc = "done" /\ req.nexted
    /\ sessions' = CleanupExpiredSessions(DeleteSession(sessions, sid), today)
    /\ req' = [req EXCEPT !.mw = "logout", !.nexted = FALSE]
    /\ UNCHANGED <<ledgerVars, usageMode, nReqs, usage_logs, served, tokens,
                   requests, clock, userEdits, limiter, rateLog, rcall, reg, proxy, resets>>

\* ---- the proxy endpoints of routes/api.js: each calls an upstream API with
\* axios.get and answers from what comes back.
MaxProxy == 2

ProxyEndpoints ==
    {"deepseek", "copilot", "gpt5", "instagram", "facebook",
     "ai/chat", "social/media", "video/download"}

\* The endpoints with one upstream each, and the unified ones.
SingleAI == {"deepseek", "copilot", "gpt5"}
SingleMedia == {"instagram", "facebook"}

\* The query of a request: "valid", or "invalid" (the parameter is missing or
\* blank, the url is of another site, the model or platform is not supported).
ProxyQueries == {"valid", "invalid"}

\* What the upstream does: it answers with an HTTP status, the request times out
\* (0), or the connection fails (-1).
UpstreamOutcomes == {200, 204, 404, 500, 0, -1}

\* Math.floor(Math.random() * fallbackResponses.length)
FallbackPicks == 0..2

\* validateStatus: axios resolves for 2xx; /facebook sets status < 500
Resolves(e, out) ==
    IF e = "facebook" THEN out > 0 /\ out < 500 ELSE out >= 200 /\ out < 300

\* catch (error): the single endpoints answer 200 with a fallback payload (the AI
\* ones a text picked at random, the media ones status: false), the unified
\* endpoints errorResponse with the default 500.
ProxyCaught(e, pick) ==
    IF e \in SingleAI
    THEN [status |-> 200, ok |-> TRUE, code |-> <<>>, source |-> "fallback",
          text |-> pick]
    ELSE IF e \in SingleMedia
    THEN [status |-> 200, ok |-> FALSE, code |-> <<>>, source |-> "fallback", text |-> 0]
    ELSE [status |-> 500, ok |-> FALSE, code |-> <<>>, source |-> "error", text |-> 0]

\* The answer of endpoint e; code: the code field of the body (<<>>: it has none).
ProxyAnswer(e, q, out, pick) ==
    IF q = "invalid"
    THEN [status |-> 400, ok |-> FALSE, code |-> <<>>, source |-> "validation",
          text |-> 0]
    ELSE IF ~Resolves(e, out) THEN ProxyCaught(e, pick)
    ELSE IF out = 200 \/ e \notin SingleAI \cup SingleMedia
    THEN [status |-> 200, ok |-> TRUE, code |-> <<>>, source |-> "external", text |-> 0]
    ELSE [status |-> out, ok |-> FALSE, code |-> <<>>, source |-> "error", text |-> 0]

\* One request to endpoint e is answered.
ProxyRequest(e, q, out, pick) ==
    /\ Len(proxy) < MaxProxy
    /\ proxy' = Append(proxy, [endpoint |-> e, query |-> q, upstream |-> out,
                               res |-> ProxyAnswer(e, q, out, pick)])
    /\ UNCHANGED <<ledgerVars, usageMode, req, nReqs, usage_logs, served, tokens,
                   requests, clock, userEdits, limiter, rateLog, rcall, sessions, reg,
                   resets>>

\* ---- the date changes (midnight).
Tick ==
    /\ today < MaxDay
    /\ today' = today + 1
    /\ call' = [q \in Procs |-> [call[q] EXCEPT !.h_solo = FALSE]]
    /\ UNCHANGED <<authVars, variant, api_keys, users, lock, nextVal, lastStatus, routeReqs,
                   counted, lastIncDay>>

\* expires_at is NULL: <<>>, or a date: <<d>>.
InitRow(k, dl, rt, lrd) ==
    [user_id |-> OwnerOf(k), key_value |-> InitialValue(k), is_active |-> 1,
     daily_limit |-> dl, requests_today |-> rt, last_reset_date |-> lrd,
     expires_at |-> <<>>]

\* ---- authenticateApiKey with every outcome of its store calls.
\* A middleware whose USER_NOT_FOUND answer does not return.
AfterUserNoReturn(r, out, user) ==
    IF out \in {"conn", "error"}
    THEN [r EXCEPT !.pc = "done", !.h_user = out, !.res = CaughtError(out)]
    ELSE IF user = NoRow
    THEN [r EXCEPT !.pc = "log", !.h_user = out,
                   !.res = Response(401, "USER_NOT_FOUND", NoData)]
    ELSE [r EXCEPT !.pc = "log", !.h_user = out,
                   !.r_apiKey = [id |-> r.keyData.id,
                                 daily_limit |-> r.keyData.daily_limit],
                   !.r_user = [id |-> r.keyData.user_id],
                   !.usage = UsageOf(r.usageResult)]

\* The request after findUserById(keyData.user_id) ended with `out` and the row
\* `user`: a throw goes to the catch, no row is answered USER_NOT_FOUND, any row
\* (its is_active is not looked at) has req.apiKey, req.user, req.usage attached.
AfterUser(r, out, user) ==
    IF out \in {"conn", "error"}
    THEN [r EXCEPT !.pc = "done", !.h_user = out, !.res = CaughtError(out)]
    ELSE IF user = NoRow
    THEN [r EXCEPT !.pc = "done", !.h_user = out,
                   !.res = Response(401, "USER_NOT_FOUND", NoData)]
    ELSE [r EXCEPT !.pc = "log", !.h_user = out,
                   !.r_apiKey = [id |-> r.keyData.id,
                                 daily_limit |-> r.keyData.daily_limit],
                   !.r_user = [id |-> r.keyData.user_id],
                   !.usage = UsageOf(r.usageResult)]

\* findApiKeyByValue has ended with `out`: a throw goes to the catch, else the
\* checks up to the call of updateApiKeyUsage.
AuthLookupOut(out) ==
    LET kd == IF out = "ok" THEN FindApiKeyByValue(req.apiKey[1]) ELSE NoRow
        rej == IF out \in {"conn", "error"} THEN CaughtError(out)
               ELSE AuthCheck(kd, today)
        r == [req EXCEPT !.keyData = kd, !.h_now = today, !.h_lookup = out]
    IN  /\ req.pc = "lookup"
        /\ req' = IF rej # NoRes THEN [r EXCEPT !.pc = "done", !.res = rej]
                  ELSE [r EXCEPT !.pc = "usage"]
        /\ UNCHANGED <<ledgerVars, usageMode, extVars, nReqs, usage_logs, served>>

\* findUserById has ended with `out`.
AuthUserOut(out) ==
    LET user == IF out = "ok" THEN FindUserById(req.keyData.user_id) ELSE NoRow
    IN  /\ req.pc = "user"
        /\ req' = AfterUser(req, out, user)
        /\ UNCHANGED <<ledgerVars, usageMode, extVars, nReqs, usage_logs, served>>

\* ---- DELETE /user/account (routes/user.js): authenticateToken, the confirmation,
\* then two statements, each awaited: the users row, then the api_keys rows.
Confirmations == {"DELETE_MY_ACCOUNT", ""}

\* How a statement of the route ends: it runs, or its callback gets an error.
RunOutcomes == {"ok", "error"}

\* authenticateToken lets a request of user u through: a token of u that verifies
\* and an active users row.
TokenAdmits(u) ==
    /\ \E tk \in tokens : tk.id = u /\ VerifyToken(tk, today) = "ok"
    /\ FindUserById(u) # NoRow /\ FindUserById(u).is_active = 1

\* A route that leaves the users row as it is.
KeptUser(row) == row

\* UPDATE users SET is_active = 0, updated_at = CURRENT_TIMESTAMP WHERE id = ?
DeactivatedUser(row) == [row EXCEPT !.is_active = 0]

\* UPDATE api_keys SET is_active = 0 WHERE user_id = ?
DeactivateKeysOf(rows, u) ==
    [k \in DOMAIN rows |->
        IF rows[k] # NoRow /\ rows[k].user_id = u
        THEN [rows[k] EXCEPT !.is_active = 0] ELSE rows[k]]

\* The request of user u arrives: the confirmation is checked and the statement
\* UPDATE users SET is_active = 0 WHERE id = ? ends with `out`.
AccountDeleteUser(p, u, conf, out) ==
    LET c == [IdleRoute EXCEPT !.op = "delete-account", !.u = u]
    IN  /\ rcall[p].pc = "idle"
        /\ TokenAdmits(u)
        /\ IF conf # "DELETE_MY_ACCOUNT"
           THEN /\ rcall' = [rcall EXCEPT ![p] = [c EXCEPT !.pc = "done", !.status = 400]]
                /\ UNCHANGED users
           ELSE IF out # "ok"
           THEN /\ rcall' = [rcall EXCEPT ![p] = [c EXCEPT !.pc = "done", !.status = 500]]
                /\ UNCHANGED users
           ELSE /\ rcall' = [rcall EXCEPT ![p] = [c EXCEPT !.pc = "d_keys"]]
                /\ users' = [users EXCEPT ![u] = DeactivatedUser(@)]
        /\ UNCHANGED <<variant, today, api_keys, lock, call, nextVal, lastStatus,
                       routeReqs, counted, lastIncDay, usageMode, req, nReqs, usage_logs,
                       served, tokens, requests, clock, userEdits, limiter, rateLog,
                       sessions, reg, proxy, resets>>

\* The statement on the api_keys rows ends with `out`: 200, or 500 from the catch.
AccountDeleteKeys(p, out) ==
    LET c == rcall[p]
    IN  /\ c.pc = "d_keys"
        /\ IF out = "ok"
           THEN /\ api_keys' = DeactivateKeysOf(api_keys, c.u)
                /\ rcall' = [rcall EXCEPT ![p] = [c EXCEPT !.pc = "done", !.status = 200]]
           ELSE /\ rcall' = [rcall EXCEPT ![p] = [c EXCEPT !.pc = "done", !.status = 500]]
                /\ UNCHANGED api_keys
        /\ UNCHANGED <<variant, today, users, lock, call, nextVal, lastStatus,
                       routeReqs, counted, lastIncDay, usageMode, req, nReqs, usage_logs,
                       served, tokens, requests, clock, userEdits, limiter, rateLog,
                       sessions, reg, proxy, resets>>

\* ---- POST /auth/forgot-password and /auth/reset-password (routes/auth.js).
\* saveResetToken, verifyResetToken and invalidateResetToken belong to the store
\* module, which is not among the sources: a saved token is a row with the user and
\* a used flag; verify answers the row of an unused token, invalidate sets the flag.
\* A token is the position of its row; h_changes counts the password updates made
\* by requests that presented it.
MaxResets == 1

ResetTokens == 1..(MaxResets + 1)

\* verifyResetToken(token) -> row? (NoRow: null)
VerifyResetToken(tok) ==
    IF tok \in DOMAIN resets /\ ~resets[tok].used THEN resets[tok] ELSE NoRow

\* forgot-password for a known email: saveResetToken(user.id, resetToken, expiry)
ForgotPassword(email) ==
    LET u == FindUserByEmail(ToLowerCase(email))
    IN  /\ Len(resets) < MaxResets
        /\ IsEmail(email)
        /\ u # 0
        /\ resets' = Append(resets, [user_id |-> u, used |-> FALSE, h_changes |-> 0])
        /\ UNCHANGED <<ledgerVars, usageMode, req, nReqs, usage_logs, served, tokens,
                       requests, clock, userEdits, limiter, rateLog, rcall, sessions,
                       reg, proxy>>

\* reset-password arrives and verifyResetToken(token) has answered: no row is
\* answered 400 'Invalid or expired reset token'.
ResetVerify(p, tok, pw) ==
    LET c == [IdleReg EXCEPT !.op = "reset-password", !.token = <<tok>>,
                             !.password = pw]
        resetData == VerifyResetToken(tok)
    IN  /\ reg[p].pc \in {"idle", "done"}
        /\ nReqs < MaxReqs
        /\ nReqs' = nReqs + 1
        /\ reg' = [reg EXCEPT ![p] =
                       IF resetData = NoRow THEN Answered(c, 400)
                       ELSE [c EXCEPT !.pc = "rs_update", !.user = resetData.user_id]]
        /\ UNCHANGED <<ledgerVars, usageMode, req, usage_logs, served, tokens,
                       requests, clock, userEdits, limiter, rateLog, rcall, sessions,
                       proxy, resets>>

\* bcrypt.hash(new_password, 10) and updateUser(resetData.user_id, { password })
ResetUpdate(p) ==
    LET c == reg[p]
        tok == c.token[1]
    IN  /\ c.pc = "rs_update"
        /\ users' = [users EXCEPT ![c.user] = [@ EXCEPT !.password = Hash(c.password)]]
        /\ resets' = [resets EXCEPT ![tok] = [@ EXCEPT !.h_changes = @ + 1]]
        /\ reg' = [reg EXCEPT ![p] = [c EXCEPT !.pc = "rs_invalidate"]]
        /\ UNCHANGED <<variant, today, api_keys, lock, call, nextVal, lastStatus,
                       routeReqs, counted, lastIncDay, usageMode, req, nReqs, usage_logs,
                       served, tokens, requests, clock, userEdits, limiter, rateLog,
                       rcall, sessions, proxy>>

\* invalidateResetToken(token), then the 200 answer.
ResetInvalidate(p) ==
    LET c == reg[p]
        tok == c.token[1]
    IN  /\ c.pc = "rs_invalidate"
        /\ resets' = [resets EXCEPT ![tok] = [@ EXCEPT !.used = TRUE]]
        /\ reg' = [reg EXCEPT ![p] = Answered(c, 200)]
        /\ UNCHANGED <<ledgerVars, usageMode, req, nReqs, usage_logs, served, tokens,
                       requests, clock, userEdits, limiter, rateLog, rcall, sessions,
                       proxy>>

InitLedger ==
    /\ lock = [k \in Keys |-> 0]
    /\ call = [p \in Procs |-> IdleCall]
    /\ nextVal = NKeys
    /\ lastStatus = 0
    /\ routeReqs = 0
    /\ lastIncDay = [k \in Keys |-> -1]

InitAuthIdle ==
    /\ req = IdleReq
    /\ nReqs = 0
    /\ usage_logs = <<>>
    /\ served = [k \in Keys |-> 0]
    /\ tokens = {}
    /\ requests = <<>>
    /\ clock = 0
    /\ userEdits = 0
    /\ limiter = [limit |-> 1, windowMs |-> 1]
    /\ rateLog = <<>>
    /\ rcall = [p \in Procs |-> IdleRoute]
    /\ sessions = {}
    /\ reg = [p \in Procs |-> IdleReg]
    /\ proxy = <<>>
    /\ resets = <<>>

Init ==
    /\ variant \in {"sqlite", "pg"}
    /\ today = 0
    /\ \E dl \in Limits : \E rt \in [Keys -> {0, dl}] :
         /\ api_keys = [k \in Keys |-> InitRow(k, dl, rt[k], today)]
         /\ counted = rt
    /\ users = [u \in Users |-> UserRow(1)]
    /\ InitLedger
    /\ usageMode = "unconditional"
    /\ InitAuthIdle

\* The quota ledger under concurrent callers.
Next ==
    \/ \E p \in Procs, k \in Keys : SqReset(p, k)
    \/ \E p \in Procs : SqSelect(p)
    \/ \E p \in Procs : SqInc(p)
    \/ \E p \in Procs, k \in Keys : PgBegin(p, k)
    \/ \E p \in Procs : PgReset(p)
    \/ \E p \in Procs : PgSelect(p)
    \/ \E p \in Procs : PgInc(p)
    \/ \E p \in Procs : PgCommit(p)
    \/ Tick

\* The key that caller p presents in the specification with the routes.
KeyOf(p) == ((p - 1) % NKeys) + 1

\* The quota ledger together with the routes that write api_keys rows.
NextRoutes ==
    \/ \E p \in Procs : PgBegin(p, KeyOf(p))
    \/ \E p \in Procs : PgReset(p)
    \/ \E p \in Procs : PgSelect(p)
    \/ \E p \in Procs : PgInc(p)
    \/ \E p \in Procs : PgCommit(p)
    \/ Tick
    \/ \E u \in Users, k \in Keys : ResetUsage(u, k)
    \/ \E u \in Users, k \in Keys, act \in Opt({0, 1}), dl \in Opt(Limits) :
          Put(u, k, act, dl)
    \/ \E u \in Users, k \in Keys : Regenerate(u, k)

Spec == Init /\ [][Next]_vars

\* The routes write through the PostgreSQL pool.
InitRoutes ==
    /\ Init
    /\ variant = "pg"
    /\ \A k \in Keys : /\ api_keys[k].daily_limit = MaxLimit
                       /\ api_keys[k].requests_today = api_keys[k].daily_limit

SpecRoutes == InitRoutes /\ [][NextRoutes]_vars

\* The middleware over keys and users in every state of activity and expiry.
InitAuth ==
    /\ variant = "pg"
    /\ today = 0
    /\ \E dl \in Limits, act \in {0, 1}, exp \in Opt({0}) :
         api_keys = [k \in Keys |->
                        [InitRow(k, dl, 0, today) EXCEPT !.is_active = act,
                                                       !.expires_at = exp]]
    /\ counted = [k \in Keys |-> 0]
    /\ \E ua \in {0, 1} : users = [u \in Users |-> UserRow(ua)]
    /\ InitLedger
    /\ usageMode \in {"unconditional", "conditional"}
    /\ InitAuthIdle

NextAuth ==
    \/ \E v \in Opt(Presented) : AuthReceive(v)
    \/ AuthLookup
    \/ \E out \in StoreOutcomes : AuthUsage(out)
    \/ AuthUser
    \/ \E out \in LogOutcomes : AuthLog(out)
    \/ Tick

SpecAuth == InitAuth /\ [][NextAuth]_vars

\* The middleware behind responseTimeLogger, over active keys of active users.
InitLogged ==
    /\ InitAuth
    /\ \A k \in Keys : api_keys[k].is_active = 1 /\ api_keys[k].expires_at = <<>>
    /\ \A u \in Users : users[u].is_active = 1

NextLogged ==
    \/ \E v \in Opt(Presented) : AuthReceive(v)
    \/ AuthLookup
    \/ \E out \in StoreOutcomes : AuthUsage(out)
    \/ AuthUser
    \/ \E out \in LogOutcomes : AuthLog(out)
    \/ \E v \in Opt(Presented) : OptReceive(v)
    \/ \E out \in StoreOutcomes : OptLookup(out)
    \/ \E out \in StoreOutcomes : OptUsage(out)
    \/ \E out \in StoreOutcomes : OptUser(out)
    \/ \E out \in LogOutcomes : OptLog(out)
    \/ \E out \in LogOutcomes : Send(out)

SpecLogged == InitLogged /\ [][NextLogged]_vars

\* optionalApiKey over keys and users in every state of activity and expiry.
NextOptional ==
    \/ \E v \in Opt(Presented) : OptReceive(v)
    \/ \E out \in StoreOutcomes : OptLookup(out)
    \/ \E out \in StoreOutcomes : OptUsage(out)
    \/ \E out \in StoreOutcomes : OptUser(out)
    \/ \E out \in LogOutcomes : OptLog(out)
    \/ Tick

SpecOptional == InitAuth /\ [][NextOptional]_vars

\* Both key middlewares over requests that carry a key in any of the three places;
\* the store answers every call.
InitSource ==
    /\ InitLogged
    /\ \A k \in Keys : api_keys[k].daily_limit = MaxLimit

NextSource ==
    \/ \E x \in Opt(XApiKeyValues), a \in Opt(AuthorizationValues), q \in Opt(QueryValues) :
          AuthReceiveFrom(x, a, q)
    \/ AuthLookup
    \/ AuthUsage("ok")
    \/ AuthUser
    \/ AuthLog("ok")
    \/ \E x \in Opt(XApiKeyValues), a \in Opt(AuthorizationValues), q \in Opt(QueryValues) :
          OptReceiveFrom(x, a, q)
    \/ OptLookup("ok")
    \/ OptUsage("ok")
    \/ OptUser("ok")
    \/ OptLog("ok")

SpecSource == InitSource /\ [][NextSource]_vars

\* One rateLimiter(limit, windowMs) in front of requests of several clients.
InitRate ==
    /\ variant = "pg"
    /\ today = 0
    /\ api_keys = [k \in Keys |-> InitRow(k, MaxLimit, 0, today)]
    /\ counted = [k \in Keys |-> 0]
    /\ users = [u \in Users |-> UserRow(1)]
    /\ InitLedger
    /\ usageMode = "unconditional"
    /\ req = IdleReq
    /\ nReqs = 0
    /\ usage_logs = <<>>
    /\ served = [k \in Keys |-> 0]
    /\ tokens = {}
    /\ userEdits = 0
    /\ requests = <<>>
    /\ clock = 0
    /\ rateLog = <<>>
    /\ rcall = [p \in Procs |-> IdleRoute]
    /\ sessions = {}
    /\ reg = [p \in Procs |-> IdleReg]
    /\ proxy = <<>>
    /\ resets = <<>>
    /\ limiter \in [limit : 1..MaxRate, windowMs : 1..MaxWindow]

NextRate ==
    \/ \E key \in RateClients, clean \in BOOLEAN : RateRequest(key, clean)
    \/ Advance

SpecRate == InitRate /\ [][NextRate]_vars

\* The plan gates behind authenticateToken, over users of every plan.
Gates == {"isAdmin", "requirePremiumPlan"}

InitGate ==
    /\ variant = "pg"
    /\ today = 0
    /\ api_keys = [k \in Keys |-> InitRow(k, MaxLimit, 0, today)]
    /\ counted = [k \in Keys |-> 0]
    /\ users \in [Users -> {[UserRow(1) EXCEPT !.plan = p] : p \in GatePlans}]
    /\ InitLedger
    /\ usageMode = "unconditional"
    /\ InitAuthIdle

NextGate ==
    \/ \E u \in Users : IssueToken(u)
    \/ \E h \in AuthHeaders : TokReceive(h)
    \/ TokUser("ok")
    \/ \E g \in Gates : Gate(g)
    \/ \E g \in Gates : GateBare(g)

SpecGate == InitGate /\ [][NextGate]_vars

\* authenticateApiKey while keys are regenerated.
NextRegen ==
    \/ \E v \in Opt(Presented) : AuthReceive(v)
    \/ AuthLookup
    \/ AuthUsage("ok")
    \/ AuthUser
    \/ AuthLog("ok")
    \/ \E u \in Users, k \in Keys : Regenerate(u, k)

InitRegen ==
    /\ InitSource
    /\ usageMode = "unconditional"

SpecRegen == InitRegen /\ [][NextRegen]_vars

\* The /apikeys/:id routes under concurrent requests of all users.
InitOwner ==
    /\ variant \in {"sqlite", "pg"}
    /\ today = 0
    /\ api_keys = [k \in Keys |-> InitRow(k, MaxLimit, 1, today)]
    /\ counted = [k \in Keys |-> 1]
    /\ users = [u \in Users |-> UserRow(1)]
    /\ InitLedger
    /\ usageMode = "unconditional"
    /\ InitAuthIdle

NextOwner ==
    \/ \E p \in Procs, u \in Users, op \in RouteOps, id \in RouteIds,
          act \in Opt({0}) : RouteCheck(p, u, op, id, act, <<>>)
    \/ \E p \in Procs : RouteWrite(p)
    \/ \E p \in Procs, u \in Users, id \in RouteIds : RouteDelete(p, u, id)

SpecOwner == InitOwner /\ [][NextOwner]_vars

\* Registrations of concurrent callers into empty tables.
InitRegister ==
    /\ variant = "pg"
    /\ today = 0
    /\ api_keys = [k \in Keys |-> NoRow]
    /\ counted = [k \in Keys |-> 0]
    /\ users = [u \in Users |-> NoRow]
    /\ InitLedger
    /\ usageMode = "unconditional"
    /\ InitAuthIdle

NextRegister ==
    \/ \E p \in Procs, email \in BodyEmails, pw \in Passwords : RegStart(p, email, pw)
    \/ \E p \in Procs : RegFind(p)
    \/ \E p \in Procs : RegCreateUser(p)
    \/ \E p \in Procs : RegCreateKey(p)
    \/ \E p \in Procs : RegSession(p)

SpecRegister == InitRegister /\ [][NextRegister]_vars

\* The client of test-registration.js: it registers, logs in and presents what the
\* answers returned, one request after another.
Client == 1

NextRoundTrip ==
    \/ \E email \in BodyEmails, pw \in Passwords : RegStart(Client, email, pw)
    \/ RegFind(Client)
    \/ RegCreateUser(Client)
    \/ RegCreateKey(Client)
    \/ RegSession(Client)
    \/ \E email \in BodyEmails, pw \in Passwords : LoginStart(Client, email, pw)
    \/ LoginKeys(Client)
    \/ \E h \in AuthHeaders : TokReceive(h)
    \/ TokUser("ok")
    \/ \E v \in Opt(Presented) : AuthReceive(v)
    \/ AuthLookup
    \/ AuthUsage("ok")
    \/ AuthUser
    \/ AuthLog("ok")

SpecRoundTrip == InitRegister /\ [][NextRoundTrip]_vars

\* Sessions are created by register and login and deleted by logout and its sweep,
\* while the tokens are presented.
NextSession ==
    \/ \E email \in BodyEmails, pw \in Passwords : RegStart(Client, email, pw)
    \/ RegFind(Client)
    \/ RegCreateUser(Client)
    \/ RegCreateKey(Client)
    \/ RegSession(Client)
    \/ \E email \in BodyEmails, pw \in Passwords : LoginStart(Client, email, pw)
    \/ LoginKeys(Client)
    \/ \E h \in AuthHeaders : TokReceive(h)
    \/ TokUser("ok")
    \/ \E sid \in Opt(SessionIds) : Logout(sid)
    \/ Tick

SpecSession == InitRegister /\ [][NextSession]_vars

\* Requests to the proxy endpoints under every behaviour of the upstream.
NextProxy ==
    \E e \in ProxyEndpoints, q \in ProxyQueries, out \in UpstreamOutcomes,
       pick \in FallbackPicks : ProxyRequest(e, q, out, pick)

SpecProxy == InitRegister /\ [][NextProxy]_vars

\* authenticateToken over users whose rows are written and deleted while tokens
\* signed earlier are still presented.
InitToken ==
    /\ InitLogged
    /\ usageMode = "unconditional"
    /\ \A k \in Keys : api_keys[k].daily_limit = MaxLimit

NextToken ==
    \/ \E u \in Users : IssueToken(u)
    \/ \E u \in Users : \E val \in Plans : UpdateUser(u, "plan", val)
    \/ \E u \in Users : \E val \in Emails : UpdateUser(u, "email", val)
    \/ \E u \in Users : \E val \in {0, 1} : UpdateUser(u, "is_active", val)
    \/ \E u \in Users : \E val \in {0, 1} : UpdateUser(u, "is_verified", val)
    \/ \E u \in Users : DeleteUser(u)
    \/ \E h \in AuthHeaders : TokReceive(h)
    \/ \E out \in StoreOutcomes : TokUser(out)
    \/ Tick

SpecToken == InitToken /\ [][NextToken]_vars

\* Every middleware that ends a request, with every outcome of its store calls.
\* The keys have a daily limit of one and no expiry or one that has passed.
InitOutcome ==
    /\ variant = "pg"
    /\ today = 0
    /\ \E act \in {0, 1}, exp \in Opt({-1}) :
         api_keys = [k \in Keys |->
                        [InitRow(k, 1, 0, today) EXCEPT !.is_active = act,
                                                       !.expires_at = exp]]
    /\ counted = [k \in Keys |-> 0]
    /\ \E ua \in {0, 1}, p \in GatePlans :
         users = [u \in Users |-> [UserRow(ua) EXCEPT !.plan = p]]
    /\ InitLedger
    /\ usageMode = "unconditional"
    /\ InitAuthIdle

NextOutcome ==
    \/ \E v \in Opt(Presented) : AuthReceive(v)
    \/ \E out \in StoreOutcomes : AuthLookupOut(out)
    \/ \E out \in StoreOutcomes : AuthUsage(out)
    \/ \E out \in StoreOutcomes : AuthUserOut(out)
    \/ \E out \in LogOutcomes : AuthLog(out)
    \/ \E u \in Users : IssueToken(u)
    \/ \E h \in AuthHeaders : TokReceive(h)
    \/ \E out \in StoreOutcomes : TokUser(out)
    \/ \E g \in Gates : Gate(g)
    \/ \E g \in Gates : GateBare(g)
    \/ RateRequest(<<"ip", 0>>, FALSE)

SpecOutcome == InitOutcome /\ [][NextOutcome]_vars

\* The PostgreSQL ledger under concurrent callers whose statements may throw.
InitPgError ==
    /\ Init
    /\ variant = "pg"

NextPgError ==
    \/ \E p \in Procs : PgBegin(p, KeyOf(p))
    \/ \E p \in Procs : PgReset(p)
    \/ \E p \in Procs : PgSelect(p)
    \/ \E p \in Procs : PgInc(p)
    \/ \E p \in Procs : PgCommit(p)
    \/ \E p \in Procs : PgBeginFail(p, KeyOf(p))
    \/ \E p \in Procs : PgFail(p)
    \/ Tick

SpecPgError == InitPgError /\ [][NextPgError]_vars

\* One account deletion next to requests through authenticateToken and
\* authenticateApiKey whose store calls answer or throw.
NextSoftDelete ==
    \/ \E u \in Users : IssueToken(u)
    \/ \E h \in AuthHeaders : TokReceive(h)
    \/ \E out \in RunOutcomes : TokUser(out)
    \/ \E v \in Opt(Presented) : AuthReceive(v)
    \/ \E out \in RunOutcomes : AuthLookupOut(out)
    \/ AuthUsage("ok")
    \/ AuthUserOut("ok")
    \/ AuthLog("ok")
    \/ \E u \in Users, conf \in Confirmations, out \in RunOutcomes :
          AccountDeleteUser(Client, u, conf, out)
    \/ \E out \in RunOutcomes : AccountDeleteKeys(Client, out)

SpecSoftDelete == InitToken /\ [][NextSoftDelete]_vars

\* Password resets by concurrent callers; one registered user.
InitReset ==
    /\ variant = "pg"
    /\ today = 0
    /\ api_keys = [k \in Keys |-> NoRow]
    /\ counted = [k \in Keys |-> 0]
    /\ users = [u \in Users |-> IF u = 1 THEN NewUser("a@x", "secret1") ELSE NoRow]
    /\ InitLedger
    /\ usageMode = "unconditional"
    /\ InitAuthIdle

NextReset ==
    \/ \E email \in BodyEmails : ForgotPassword(email)
    \/ \E p \in Procs, tok \in ResetTokens, pw \in Passwords : ResetVerify(p, tok, pw)
    \/ \E p \in Procs : ResetUpdate(p)
    \/ \E p \in Procs : ResetInvalidate(p)

SpecReset == InitReset /\ [][NextReset]_vars

\* ------------------------------------------------------------- properties
Done(p) == call[p].pc = "done"

\* C1: with more concurrent calls than the limit on one key, only daily_limit calls
\* are admitted since the last reset, the stored counter never exceeds daily_limit,
\* and every call that is not admitted returns remaining = 0.
C1_ExactlyLimitAdmitted ==
    /\ \A k \in Keys : /\ api_keys[k].requests_today <= api_keys[k].daily_limit
                       /\ counted[k] <= api_keys[k].daily_limit
    /\ \A p \in Procs : Done(p) /\ ~call[p].result.allowed => call[p].result.remaining = 0

\* C2: no count is lost: the stored requests_today equals the number of calls that
\* returned allowed = true since the counter was last reset.
C2_NoCountLost ==
    \A k \in Keys : api_keys[k].requests_today = counted[k]

\* Two concurrent callers were both admitted and both increments are stored.
C2_TwoAdmitted ==
    \E p, q \in Procs :
        /\ p # q /\ Done(p) /\ Done(q)
        /\ call[p].key = call[q].key /\ call[p].day = call[q].day
        /\ call[p].result.allowed /\ call[q].result.allowed
        /\ call[p].sel = call[q].sel
        /\ api_keys[call[p].key].requests_today = call[p].sel.requests_today + 2

\* C3: day rollover: a single call on a key with last_reset_date before today and
\* requests_today = daily_limit >= 1 returns allowed = true with remaining =
\* daily_limit - 1 and leaves last_reset_date = today, requests_today = 1.
C3_DayRollover ==
    \A p \in Procs :
        Done(p) /\ call[p].h_solo =>
            /\ call[p].result.allowed
            /\ call[p].result.remaining = api_keys[call[p].key].daily_limit - 1
            /\ api_keys[call[p].key].last_reset_date = today
            /\ api_keys[call[p].key].requests_today = 1

C3_RolloverCallDone ==
    \E p \in Procs : Done(p) /\ call[p].h_solo /\ today > 0

\* C4: a call's limit comparison never reads a count from before its day's reset
\* (the row it selects carries last_reset_date >= the call's date), and no step
\* zeroes the counter after an increment charged to the date the step resets to.
PastReset(p) ==
    LET c == call[p]
    IN  /\ c.pc = "s_select" => api_keys[c.key].last_reset_date >= c.day
        /\ c.pc = "p_select" => c.tx.last_reset_date >= c.day

Wiped(k) ==
    \/ api_keys'[k].requests_today < api_keys[k].requests_today
    \/ api_keys'[k].last_reset_date # api_keys[k].last_reset_date

C4_ResetBeforeCompare ==
    /\ [](\A p \in Procs : PastReset(p))
    /\ [][\A k \in Keys : Wiped(k) => lastIncDay[k] < api_keys'[k].last_reset_date]_vars

\* One call was admitted on a date whose reset another call, still in flight, also ran.
C4_ConcurrentRollover ==
    \E p, q \in Procs :
        /\ p # q /\ call[p].key = call[q].key /\ call[p].day = call[q].day
        /\ call[p].day > 0
        /\ Done(q) /\ call[q].result.allowed
        /\ call[p].pc \in {"s_select", "p_select"}
        /\ lastIncDay[call[p].key] = call[p].day

\* C5: an admitted call's remaining is daily_limit minus the requests_today stored
\* immediately before the call's own increment, minus one.
C5_RemainingFromStored ==
    \A p \in Procs :
        Done(p) /\ call[p].result.allowed =>
            call[p].result.remaining = call[p].h_limit - call[p].h_before - 1

\* C6: a call that returns allowed = false returns remaining = 0 and none of its
\* statements changed the stored requests_today.
C6_DeniedLeavesCounter ==
    \A p \in Procs :
        Done(p) /\ ~call[p].result.allowed =>
            call[p].result.remaining = 0 /\ ~call[p].h_wrote

\* C7 as claimed: requests_today is never negative, and the counter is set back (it
\* goes down, or last_reset_date changes) only in a step of a quota check that moves
\* last_reset_date forward (so once per date).
IsRouteStep == routeReqs' # routeReqs

SetBack(k) ==
    \/ api_keys'[k].requests_today < api_keys[k].requests_today
    \/ api_keys'[k].last_reset_date # api_keys[k].last_reset_date

C8_SequentialQuota ==
    req.pc = "done" /\ req.h_nth >= 1 =>
        LET L == req.usageResult.daily_limit
            n == req.h_nth
        IN  /\ n <= L => req.nexted /\ req.usage.remaining = L - n
            /\ n = L + 1 =>
                  req.res = Response(429, "RATE_LIMIT_EXCEEDED",
                                     [limit |-> L, used |-> L, remaining |-> 0])

\* C9: the response carries the code of the first condition that holds, in the order
\* API_KEY_MISSING, INVALID_API_KEY, API_KEY_DEACTIVATED, API_KEY_EXPIRED (with the
\* stored expires_at), USER_INACTIVE; a request none applies to reaches the quota check.
HoldersOf(v) == {k \in Keys : v # <<>> /\ api_keys[k].key_value = v[1]}

C9_RejectionOrder ==
    req.pc \notin {"idle", "lookup"} =>
        IF req.apiKey = <<>>
        THEN req.res = Response(401, "API_KEY_MISSING", NoData)
        ELSE IF HoldersOf(req.apiKey) = {}
        THEN req.res = Response(401, "INVALID_API_KEY", NoData)
        ELSE LET row == api_keys[CHOOSE k \in HoldersOf(req.apiKey) : TRUE]
             IN  IF row.is_active # 1
                 THEN req.res = Response(401, "API_KEY_DEACTIVATED", NoData)
                 ELSE IF row.expires_at # <<>> /\ row.expires_at[1] < req.h_now
                 THEN req.res = Response(401, "API_KEY_EXPIRED",
                                         [expires_at |-> row.expires_at])
                 ELSE IF users[row.user_id].is_active # 1
                 THEN req.res = Response(401, "USER_INACTIVE", NoData)
                 ELSE req.pc = "usage" \/ req.h_usage # ""

\* A deactivated and expired key of an inactive user was answered.
C9_DeactivatedExpiredInactive ==
    /\ req.pc = "done"
    /\ req.res = Response(401, "API_KEY_DEACTIVATED", NoData)
    /\ Expired(req.keyData.expires_at, req.h_now)
    /\ req.keyData.user_active # 1

\* C10: a request answered API_KEY_MISSING, INVALID_API_KEY, API_KEY_DEACTIVATED,
\* API_KEY_EXPIRED or USER_INACTIVE has changed no key's requests_today or
\* last_reset_date and appended no usage log row; a key value that no row holds is
\* always answered INVALID_API_KEY.
KeyRejections ==
    {"API_KEY_MISSING", "INVALID_API_KEY", "API_KEY_DEACTIVATED", "API_KEY_EXPIRED",
     "USER_INACTIVE"}

RejectedEarly == req.pc = "done" /\ req.res # NoRes /\ req.res.code \in KeyRejections

C10_RejectionChangesNothing ==
    /\ RejectedEarly =>
          /\ \A k \in Keys :
                /\ api_keys[k].requests_today = req.h_rows[k].requests_today
                /\ api_keys[k].last_reset_date = req.h_rows[k].last_reset_date
          /\ usage_logs = req.h_logs
    /\ req.pc = "done" /\ req.apiKey # <<>> /\ HoldersOf(req.apiKey) = {} =>
          req.res = Response(401, "INVALID_API_KEY", NoData)

\* An unknown key value was answered after an earlier request had been admitted.
C10_UnknownKeyAfterAdmitted ==
    /\ RejectedEarly
    /\ req.res.code = "INVALID_API_KEY"
    /\ usage_logs # <<>>
    /\ \E k \in Keys : api_keys[k].requests_today > 0

\* C11: when the store call of the quota check throws or gives no result, the request
\* is not admitted: next() is not called, req.apiKey, req.user and req.usage stay
\* unset, and a 5xx response is sent.
UsageFailed == req.h_usage \in StoreOutcomes \ {"ok"}

C11_LedgerFailureRefuses ==
    UsageFailed =>
        /\ req.pc = "done" /\ ~req.nexted
        /\ req.r_apiKey = NoKey /\ req.r_user = NoUser /\ req.usage = NoUsage
        /\ req.res # NoRes /\ req.res.status >= 500

\* The store gave no result for a key that still had quota left.
C11_NoResultRefused ==
    /\ req.h_usage = "none"
    /\ api_keys[req.keyData.id].requests_today < api_keys[req.keyData.id].daily_limit

C14_NextWithoutWaiting ==
    req.pc = "log" => req.nexted

\* C15: when an admitted request has been answered through the wrapped res.send,
\* usage_logs holds exactly one row of that request, carrying its status code.
RowsOf(n) == {i \in DOMAIN usage_logs : usage_logs[i].req = n}

C15_OneRowPerRequest ==
    req.nexted /\ req.sent > 0 =>
        /\ Cardinality(RowsOf(req.h_req)) = 1
        /\ \A i \in RowsOf(req.h_req) : usage_logs[i].status_code = <<HandlerBody.status>>

\* C13: a failed usage write never fails the request.  When the logUsage call of
\* authenticateApiKey or optionalApiKey rejects or throws, the request is still
\* admitted: req.apiKey, req.user and req.usage are set, next() is called and no
\* response is sent by the middleware; when the logUsage call of the wrapped
\* res.send fails, the original send is still called exactly once with the body
\* it was given.
LogFailed == {"reject", "throw"}

C13_LogFailureNeverFails ==
    /\ req.h_log \in LogFailed =>
          /\ req.nexted /\ req.nexts = 1 /\ req.res = NoRes
          /\ HasPrincipal(req) /\ req.usage # NoUsage
    /\ req.h_sendlog \in LogFailed =>
          /\ req.sent = 1
          /\ req.sentBody = <<HandlerBody>>

\* Both usage writes of one request failed, in optionalApiKey and in res.send.
C13_BothWritesFailed ==
    /\ req.mw = "optionalApiKey"
    /\ req.h_log = "throw" /\ req.h_sendlog = "reject"
    /\ req.sent = 1

\* C16: optionalApiKey never rejects.  It sends no response and calls next() exactly
\* once whatever the store does; whenever a check fails (no key, unknown key,
\* deactivated or expired key, quota exceeded, a store call failing, owner missing
\* or inactive) req.apiKey, req.user and req.usage are left unset.
OptCheckFailed ==
    \/ req.apiKey = <<>>
    \/ req.h_lookup \in StoreOutcomes \ {"ok"}
    \/ HoldersOf(req.apiKey) = {}
    \/ \E k \in HoldersOf(req.apiKey) :
          \/ api_keys[k].is_active # 1
          \/ Expired(api_keys[k].expires_at, req.h_now)
          \/ users[api_keys[k].user_id].is_active # 1
    \/ req.h_usage \in StoreOutcomes \ {"ok"}
    \/ req.h_usage = "ok" /\ req.usageResult.requests_today > req.keyData.daily_limit
    \/ req.h_user \in StoreOutcomes \ {"ok"}

C16_OptionalNeverRejects ==
    req.mw = "optionalApiKey" =>
        /\ req.res = NoRes /\ req.sent = 0
        /\ req.nexts = (IF req.pc = "done" THEN 1 ELSE 0)
        /\ req.pc = "done" /\ OptCheckFailed =>
              req.r_apiKey = NoKey /\ req.r_user = NoUser /\ req.usage = NoUsage
        /\ req.pc = "done" /\ ~OptCheckFailed => HasPrincipal(req)

\* The key was usable and within its quota, and the owner was inactive.
C16_InactiveOwnerWentOn ==
    /\ req.mw = "optionalApiKey" /\ req.pc = "done" /\ req.nexted
    /\ req.h_user = "ok"
    /\ users[req.keyData.user_id].is_active # 1
    /\ req.r_user = NoUser

C18_FailureMapping ==
    req.mw = "authenticateToken" /\ req.pc = "done" =>
        /\ req.token = <<>> => req.res = Response(401, "TOKEN_REQUIRED", NoData)
        /\ req.token # <<>> /\ ~req.token[1].sig_ok =>
              req.res = Response(403, "INVALID_TOKEN", NoData)
        /\ req.token # <<>> /\ req.token[1].sig_ok /\ req.h_now >= req.token[1].exp =>
              req.res = Response(401, "TOKEN_EXPIRED", NoData)
        /\ req.h_user \in {"conn", "error"} =>
              req.res = Response(500, "AUTH_FAILED", NoData)
        /\ req.res # NoRes => ~req.nexted /\ req.nexts = 0 /\ req.r_user = NoUser
        /\ req.res = NoRes => req.nexts = 1

\* A token that is expired and whose signature is invalid was answered.
C18_ExpiredAndForged ==
    /\ req.mw = "authenticateToken" /\ req.pc = "done"
    /\ req.token # <<>> /\ req.token[1] # Malformed
    /\ ~req.token[1].sig_ok /\ req.h_now >= req.token[1].exp
    /\ req.res.code = "INVALID_TOKEN"

\* C19 as claimed: the key is the value of the X-API-Key header when that header is
\* present, otherwise the Authorization header without its 'Bearer ' prefix when that
\* header is present, otherwise the api_key query parameter: the query parameter is
\* used only when both headers are absent.
Unprefixed(s) == IF s # <<>> /\ <<s[1]>> = BearerPart THEN Tail(s) ELSE s

C19_QueryOnlyWithoutHeaders ==
    req.h_src # NoSrc =>
        LET s == req.h_src
        IN  req.apiKey = IF s.x # <<>> THEN s.x[1]
                         ELSE IF s.a # <<>> THEN Unprefixed(s.a[1])
                         ELSE IF s.q # <<>> THEN s.q[1]
                         ELSE <<>>

\* C19 amended: the key is the X-API-Key header when it is present and not empty,
\* otherwise the Authorization header without its 'Bearer ' prefix when that is
\* present and not empty, otherwise the api_key query parameter; an empty header
\* counts as absent.  Only a key holding the chosen value has its counter changed.
NonEmpty(o) == o # <<>> /\ o[1] # <<>>

C19_FirstNonEmptySource ==
    req.h_src # NoSrc =>
        LET s == req.h_src
            chosen == IF NonEmpty(s.x) THEN s.x[1]
                      ELSE IF NonEmpty(s.a) THEN Unprefixed(s.a[1])
                      ELSE IF NonEmpty(s.q) THEN s.q[1]
                      ELSE <<>>
        IN  /\ req.apiKey = chosen
            /\ \A k \in Keys :
                  api_keys[k].requests_today # req.h_rows[k].requests_today =>
                      <<api_keys[k].key_value>> = chosen

\* The header carried a value that no row holds, the query parameter a stored key:
\* the request was answered INVALID_API_KEY and the stored key was not counted.
C19_HeaderBeatsQuery ==
    /\ req.h_src # NoSrc /\ req.pc = "done"
    /\ NonEmpty(req.h_src.x) /\ NonEmpty(req.h_src.q)
    /\ HoldersOf(req.h_src.x[1]) = {} /\ HoldersOf(req.h_src.q[1]) # {}
    /\ req.res = Response(401, "INVALID_API_KEY", NoData)
    /\ \A k \in Keys : api_keys[k].requests_today = req.h_rows[k].requests_today

\* C20: with limit n and window w, a request of a client is admitted when fewer than
\* n of its admitted requests lie within w before it (so the first n requests are
\* admitted, and so is a request more than w after them), and is rejected with
\* 429 RATE_LIMITED when n admitted requests lie within w before it (the (n+1)-th
\* request inside the window).
AdmittedBefore(i) ==
    {j \in 1..(i - 1) :
        /\ rateLog[j].key = rateLog[i].key
        /\ rateLog[j].admitted
        /\ rateLog[i].time - rateLog[j].time < limiter.windowMs}

C20_SlidingWindow ==
    \A i \in DOMAIN rateLog :
        IF Cardinality(AdmittedBefore(i)) < limiter.limit
        THEN rateLog[i].admitted /\ rateLog[i].res = NoRes
        ELSE /\ ~rateLog[i].admitted
             /\ rateLog[i].res.status = 429 /\ rateLog[i].res.code = "RATE_LIMITED"

\* A client was admitted up to the limit, rejected inside the window, and admitted
\* again once more than the window had passed.
C20_RejectedThenAdmittedAgain ==
    \E i, j \in DOMAIN rateLog :
        /\ i < j /\ rateLog[i].key = rateLog[j].key
        /\ ~rateLog[i].admitted /\ rateLog[j].admitted
        /\ Cardinality(AdmittedBefore(i)) = limiter.limit
        /\ \A m \in AdmittedBefore(i) : rateLog[j].time - rateLog[m].time > limiter.windowMs

\* C21 as claimed: a request at time now is admitted iff fewer than limit of the
\* key's recorded timestamps t satisfy now - windowMs <= t <= now (a timestamp
\* exactly windowMs old still counts), and an admitted request records now.
Handled == rateLog'[Len(rateLog')]

Recorded(key) == RequestsOf(requests, key)

C21_ClosedWindow ==
    [][rateLog' # rateLog =>
          LET recs == Recorded(Handled.key)
              inside == {i \in DOMAIN recs :
                            clock - limiter.windowMs <= recs[i] /\ recs[i] <= clock}
          IN  Handled.admitted <=> Cardinality(inside) < limiter.limit]_vars

\* C21 amended: a request at time now is admitted iff fewer than limit of the key's
\* recorded timestamps t satisfy now - windowMs < t <= now (a timestamp exactly
\* windowMs old no longer counts), and an admitted request records now as the
\* key's latest timestamp.
C21_HalfOpenWindow ==
    [][rateLog' # rateLog =>
          LET recs == Recorded(Handled.key)
              inside == {i \in DOMAIN recs :
                            clock - limiter.windowMs < recs[i] /\ recs[i] <= clock}
          IN  /\ Handled.admitted <=> Cardinality(inside) < limiter.limit
              /\ Handled.admitted =>
                    /\ Handled.key \in DOMAIN requests'
                    /\ requests'[Handled.key] # <<>>
                    /\ requests'[Handled.key][Len(requests'[Handled.key])] = clock]_vars

\* A request was admitted although limit admitted requests of its key lay within
\* windowMs before it, one of them exactly windowMs old.
C21_AdmittedAtBoundary ==
    \E j \in DOMAIN rateLog :
        /\ rateLog[j].admitted
        /\ \E i \in 1..(j - 1) :
              /\ rateLog[i].key = rateLog[j].key /\ rateLog[i].admitted
              /\ rateLog[j].time - rateLog[i].time = limiter.windowMs
        /\ Cardinality({i \in 1..(j - 1) :
                           /\ rateLog[i].key = rateLog[j].key /\ rateLog[i].admitted
                           /\ rateLog[j].time - rateLog[i].time <= limiter.windowMs})
              >= limiter.limit

\* C30: for each limiter key and every instant t, at most limit admitted requests
\* of the key have their timestamp in (t - windowMs, t]; a request is handled in one
\* step, and a key's admissions do not depend on the other keys' requests.
Instants == 0..MaxClock

AdmittedIn(key, t) ==
    {i \in DOMAIN rateLog :
        /\ rateLog[i].key = key /\ rateLog[i].admitted
        /\ t - limiter.windowMs < rateLog[i].time /\ rateLog[i].time <= t}

C30_AtMostLimitPerWindow ==
    \A key \in RateClients, t \in Instants :
        Cardinality(AdmittedIn(key, t)) <= limiter.limit

\* Two clients asked at the same instant: one had used its limit and was rejected,
\* the other was admitted.
C30_KeysIndependent ==
    \E i, j \in DOMAIN rateLog :
        /\ rateLog[i].key # rateLog[j].key /\ rateLog[i].time = rateLog[j].time
        /\ ~rateLog[i].admitted /\ rateLog[j].admitted /\ i < j
        /\ Cardinality(AdmittedIn(rateLog[i].key, rateLog[i].time)) = limiter.limit

\* C22 as claimed: a plan gate calls next() iff a principal is present and its plan
\* is permitted (basic, pro, enterprise, admin for requirePremiumPlan; admin for
\* isAdmin); without a principal it answers AUTH_REQUIRED and does not call next();
\* with a plan outside the set it answers 403 with current_plan and with
\* required_plans equal to the permitted set.
PermittedSet(g) ==
    IF g = "isAdmin" THEN {"admin"} ELSE {"basic", "pro", "enterprise", "admin"}

ListedPlans(data) == {data.required_plans[i] : i \in DOMAIN data.required_plans}

C22_GateAnswers ==
    req.mw \in Gates /\ req.pc = "done" =>
        IF req.r_user = NoUser
        THEN req.res # NoRes /\ req.res.code = "AUTH_REQUIRED" /\ ~req.nexted
        ELSE IF req.r_user.plan \in PermittedSet(req.mw)
        THEN req.nexted /\ req.res = NoRes
        ELSE /\ ~req.nexted
             /\ req.res # NoRes /\ req.res.status = 403
             /\ req.res.data # NoData
             /\ req.res.data.current_plan = req.r_user.plan
             /\ ListedPlans(req.res.data) = PermittedSet(req.mw)

\* C22 amended: the admission is as claimed; the 403 of requirePremiumPlan carries
\* current_plan and required_plans = basic, pro, enterprise (the permitted set
\* without admin), and the 403 of isAdmin is ADMIN_REQUIRED without data.
C22_GateDecides ==
    req.mw \in Gates /\ req.pc = "done" =>
        IF req.r_user = NoUser
        THEN req.res = Response(401, "AUTH_REQUIRED", NoData) /\ ~req.nexted
        ELSE IF req.r_user.plan \in PermittedSet(req.mw)
        THEN req.nexted /\ req.nexts = 1 /\ req.res = NoRes
        ELSE /\ ~req.nexted /\ req.res # NoRes /\ req.res.status = 403
             /\ req.mw = "requirePremiumPlan" =>
                   /\ req.res.code = "PREMIUM_REQUIRED"
                   /\ req.res.data.current_plan = req.r_user.plan
                   /\ ListedPlans(req.res.data) = PermittedSet(req.mw) \ {"admin"}
             /\ req.mw = "isAdmin" =>
                   req.res.code = "ADMIN_REQUIRED" /\ req.res.data = NoData

\* isAdmin refused a principal whose stored plan is pro.
C22_AdminGateRefusedPro ==
    /\ req.mw = "isAdmin" /\ req.pc = "done"
    /\ req.r_user # NoUser /\ req.r_user.plan = "pro"
    /\ req.res # NoRes /\ req.res.status = 403

\* C23: a successful regeneration stores a value never used before and retires the
\* old one, leaving the key's id, daily_limit, requests_today and last_reset_date
\* as they were; a retired value stays retired, a lookup with a retired value is
\* answered INVALID_API_KEY, and a lookup with a stored value is not.
Retired == {v \in 1..nextVal : \A k \in Keys : api_keys[k].key_value # v}

RegenerationDone == lastStatus' = 200 /\ nextVal' = nextVal + 1

IsLookup == req.pc = "lookup" /\ req'.pc # "lookup"

C23_OldValueRetiredForever ==
    [][/\ \A v \in Retired : v \in Retired'
       /\ RegenerationDone =>
             \E k \in Keys :
                /\ api_keys[k].key_value \in Retired'
                /\ api_keys[k].key_value \notin Retired
                /\ api_keys'[k] = [api_keys[k] EXCEPT !.key_value = nextVal']
                /\ \A j \in Keys \ {k} : api_keys'[j] = api_keys[j]
       /\ IsLookup /\ req.apiKey[1] \in Retired =>
             req'.res = Response(401, "INVALID_API_KEY", NoData)
       /\ IsLookup /\ HoldersOf(req.apiKey) # {} =>
             req'.res = NoRes \/ req'.res.code # "INVALID_API_KEY"]_vars

\* The value a key had before its regeneration was presented and answered
\* INVALID_API_KEY.
C23_OldValueRejected ==
    /\ req.mw = "authenticateApiKey" /\ req.pc = "done"
    /\ req.apiKey # <<>> /\ req.apiKey[1] \in Retired
    /\ \E k \in Keys : req.apiKey[1] = InitialValue(k)
    /\ req.res = Response(401, "INVALID_API_KEY", NoData)

\* C26: PUT, DELETE, regenerate and reset-usage on /apikeys/:id change a row only
\* when its user_id is the caller's id; a request whose :id names a key of another
\* user or no key is answered 404, and no api_keys row changes in that step, also
\* when the look-up and the write of concurrent requests interleave.
Stepping(p) == rcall'[p] # rcall[p]

NotOwn(c) == c.id \notin Keys \/ api_keys[c.id] = NoRow \/ api_keys[c.id].user_id # c.u

Registered(p) == reg[p].op = "register" /\ reg[p].pc = "done"

\* C29: a registration whose email, lower-cased and trimmed, is the email of an
\* existing user is answered 400 and writes no row; of two registrations of one
\* email that run side by side, the one that creates no user is answered 400.
C29_DuplicateEmailAnswered400 ==
    /\ \A p \in Procs : Registered(p) /\ reg[p].h_taken => reg[p].status = 400
    /\ \A p \in Procs : Registered(p) /\ reg[p].status # 201 => reg[p].status = 400
    /\ \A u, v \in Users :
         users[u] # NoRow /\ users[v] # NoRow /\ users[u].email = users[v].email => u = v


\* ---- C24
KeyOfUser(u) == CHOOSE k \in Keys : api_keys[k] # NoRow /\ api_keys[k].user_id = u

\* The token of a registration is accepted while it has not expired.
C24_TokenAccepted ==
    req.mw = "authenticateToken" /\ req.pc = "done" /\ req.token # <<>>
        /\ req.token[1] \in tokens /\ req.h_now < req.token[1].exp
    => req.nexted

\* The first request with the key of a registration is admitted.
C24_FirstRequestAdmitted ==
    req.mw = "authenticateApiKey" /\ req.pc \in {"log", "done"} /\ req.apiKey # <<>>
        /\ req.keyData # NoRow /\ req.h_nth = 1
    => req.res = NoRes

\* The default key has the daily limit of its owner's plan.
C24_PlanDefaultLimit ==
    \A k \in Keys : api_keys[k] # NoRow =>
        api_keys[k].daily_limit = getDailyLimitForPlan(users[api_keys[k].user_id].plan)

\* C24: after a registration was answered 201, its token is accepted by
\* authenticateToken, the first request with its API key is admitted by
\* authenticateApiKey, a login with the same email and password is answered 200
\* with that API key, and the key's daily_limit is the default of the plan.
C24_RoundTrip ==
    /\ C24_TokenAccepted
    /\ C24_FirstRequestAdmitted
    /\ C24_PlanDefaultLimit
    /\ \A p \in Procs :
         reg[p].op = "login" /\ reg[p].pc = "done" /\ reg[p].h_same =>
             /\ reg[p].status = 200
             /\ reg[p].api_key = <<api_keys[KeyOfUser(FindUserByEmail(
                                      ToLowerCase(reg[p].email)))].key_value>>


\* ---- C25
SessionsOf(u) == {s \in sessions : s.user_id = u}

UpstreamFailed(r) == r.query = "valid" /\ ~Resolves(r.endpoint, r.upstream)

\* C27: a proxy endpoint whose upstream times out or fails answers with a success
\* status, never 5xx, and with a fallback payload that is the same every time.
C27_FallbackOnUpstreamFailure ==
    /\ \A i \in 1..Len(proxy) :
         UpstreamFailed(proxy[i]) =>
             proxy[i].res.status < 400 /\ proxy[i].res.source = "fallback"
    /\ \A i, j \in 1..Len(proxy) :
         UpstreamFailed(proxy[i]) /\ UpstreamFailed(proxy[j])
             /\ proxy[i].endpoint = proxy[j].endpoint
         => proxy[i].res = proxy[j].res


AdmittedInWindow(log, i) ==
    {j \in 1..(i - 1) :
        /\ log[j].key = log[i].key /\ log[j].admitted
        /\ log[i].time - log[j].time < limiter.windowMs}

\* C35: a request rejected by rateLimiter records no timestamp, its key's list and
\* every other entry of the map are as before; so a request is admitted as soon as
\* fewer than limit admitted requests of its key lie within windowMs before it,
\* however many rejected attempts lie there.
C35_RejectionRecordsNothing ==
    [][rateLog' # rateLog =>
          /\ ~Handled.admitted => requests' = requests
          /\ Cardinality(AdmittedInWindow(rateLog', Len(rateLog'))) < limiter.limit
                => Handled.admitted]_vars

\* A client was admitted although it had been rejected less than windowMs before.
C35_AdmittedSoonAfterRejection ==
    \E i, j \in DOMAIN rateLog :
        /\ i < j /\ rateLog[i].key = rateLog[j].key
        /\ ~rateLog[i].admitted /\ rateLog[j].admitted
        /\ rateLog[j].time - rateLog[i].time < limiter.windowMs

\* ---- C36
\* The map after the first n requests of the log, with the clean-up pass run as the
\* log records it ("as"), on every admitted request ("always") or on none ("never").
RECURSIVE Replay(_, _)
Replay(n, how) ==
    IF n = 0 THEN <<>>
    ELSE Handle(Replay(n - 1, how), rateLog[n].key, rateLog[n].time,
                IF how = "as" THEN rateLog[n].clean ELSE how = "always")

\* C36: the clean-up pass changes no decision: the request handled last (and so,
\* state by state, every request) is admitted or rejected as it would be had the
\* pass run on every request, and as it would be had it never run.
C36_CleanupChangesNoDecision ==
    rateLog # <<>> =>
        LET i == Len(rateLog)
        IN  /\ rateLog[i].admitted = ~Full(Replay(i - 1, "never"), rateLog[i].key,
                                           rateLog[i].time)
            /\ rateLog[i].admitted = ~Full(Replay(i - 1, "always"), rateLog[i].key,
                                           rateLog[i].time)

\* A request was decided after a clean-up pass had dropped a timestamp that the map
\* would still hold without the pass.
C36_DecidedAfterCleanup ==
    \E i \in DOMAIN rateLog :
        /\ Replay(i - 1, "as") # Replay(i - 1, "never")
        /\ requests = Replay(Len(rateLog), "as")

\* ---- C37
SeenKeys == {rateLog[i].key : i \in DOMAIN rateLog}

\* C37: rateLimiter removes no key from its map: the keys of the map are the keys
\* of the requests handled so far, and a step never takes one away.
C37_KeysOnlyGrow ==
    [][/\ DOMAIN requests \subseteq DOMAIN requests'
       /\ DOMAIN requests' = {rateLog'[i].key : i \in DOMAIN rateLog'}]_vars

\* A key whose timestamps have all been dropped is still in the map, with an empty
\* list.
C37_EmptyListKept ==
    \E key \in SeenKeys :
        /\ key \in DOMAIN requests /\ requests[key] = <<>>
        /\ \E i \in DOMAIN rateLog : rateLog[i].key = key /\ rateLog[i].admitted


\* ---- C31
\* The request has gone on with req.apiKey of key k attached.
AdmittedUnder(k) == req.nexted /\ req.r_apiKey # NoKey /\ req.r_apiKey.id = k

\* C31: when a request of authenticateApiKey or optionalApiKey has been handled
\* within one day, the requests_today of a key is one more than when the request
\* arrived if the request went on authenticated under that key, and the same
\* otherwise.
C31_CountsOnlyAdmitted ==
    req.mw \in {"authenticateApiKey", "optionalApiKey"} /\ req.pc = "done"
        /\ (\A k \in Keys : req.h_rows[k].last_reset_date = today)
    => \A k \in Keys :
          api_keys[k].requests_today =
              req.h_rows[k].requests_today + (IF AdmittedUnder(k) THEN 1 ELSE 0)


\* ---- C33
EndingMiddleware ==
    {"authenticateToken", "authenticateApiKey", "rateLimiter", "isAdmin",
     "requirePremiumPlan"}

\* C33: a request one of authenticateToken, authenticateApiKey, rateLimiter, isAdmin
\* and requirePremiumPlan has finished with has either had next() called exactly once
\* and no response, or a response and no call of next(); while the middleware is
\* still waiting for a store call it has done neither.
C33_NextOrResponse ==
    req.mw \in EndingMiddleware =>
        /\ req.pc = "done" =>
              \/ req.nexts = 1 /\ req.nexted /\ req.res = NoRes
              \/ req.nexts = 0 /\ ~req.nexted /\ req.res # NoRes
        /\ req.pc \notin {"idle", "done", "log"} => req.nexts = 0 /\ req.res = NoRes
        /\ req.pc = "log" => req.nexts = 0 /\ req.res = NoRes

\* authenticateApiKey answered USER_NOT_FOUND after the quota check let it through.
C33_RejectedAfterQuota ==
    /\ req.mw = "authenticateApiKey" /\ req.pc = "done"
    /\ req.h_usage = "ok" /\ req.h_user = "none"
    /\ req.res = Response(401, "USER_NOT_FOUND", NoData) /\ req.nexts = 0


\* ---- C32
\* The store holds an active, unexpired key with value v whose owner is active.
StoreAccepts(v) == AuthCheck(FindApiKeyByValue(v), today) = NoRes

\* C32: at the step in which authenticateApiKey calls next(), the store holds the
\* presented value on an active, unexpired key of an active owner.
C32_AdmitsOnlyWhatTheStoreAccepts ==
    [][(req.mw = "authenticateApiKey" /\ ~req.nexted /\ req'.nexted)
           => StoreAccepts(req.apiKey[1])]_vars


\* ---- C34
\* p's call ends in this step.
Ends(p) == InFlight(call[p]) /\ call'[p].pc = "done"

\* C34: a step in which a PostgreSQL checkAndUpdateApiKeyUsage call throws leaves
\* every stored row as it was, and the call that has thrown returns no result, has
\* left the stored requests_today and last_reset_date of its key as they were when
\* its transaction took the row, and holds no row lock; every call that has ended,
\* allowed, denied or thrown, has released its connection exactly once, and a call
\* that has not ended has not released it.
C34_ErrorRollsBackAndReleases ==
    [][\A p \in Procs :
          /\ call'[p].h_released = IF call'[p].pc = "done" THEN 1 ELSE 0
          /\ (call'[p].pc = "done" /\ call'[p].h_error /\ ~call[p].h_error) =>
                /\ api_keys' = api_keys
                /\ api_keys'[call'[p].key].requests_today
                       = call'[p].h_start.requests_today
                /\ api_keys'[call'[p].key].last_reset_date
                       = call'[p].h_start.last_reset_date
                /\ call'[p].result = NoResult
                /\ lock'[call'[p].key] # p]_vars

\* A call has thrown after its transaction had reset the counter of an earlier day
\* and counted the request.
C34_ResetAndCountUndone ==
    \E p \in Procs :
        /\ call[p].pc = "done" /\ call[p].h_error /\ call[p].h_released = 1
        /\ call[p].h_undone # NoRow
        /\ call[p].h_undone.last_reset_date > call[p].h_start.last_reset_date
        /\ call[p].h_undone.requests_today = 1
        /\ call[p].h_start.requests_today > 0
        /\ api_keys[call[p].key].last_reset_date = call[p].h_start.last_reset_date


\* ---- C38
\* DELETE /user/account of user u has been answered 200.
AccountDeleted(u) ==
    \E p \in Procs : rcall[p].op = "delete-account" /\ rcall[p].u = u
                         /\ rcall[p].pc = "done" /\ rcall[p].status = 200

\* The request presents the value of a stored key of user u.
PresentsKeyOf(u) ==
    \E k \in Keys : api_keys[k] # NoRow /\ api_keys[k].user_id = u
                        /\ req.apiKey = <<api_keys[k].key_value>>

\* The users row of u is deactivated and the presented key of u is still usable.
HalfDeleted(u) ==
    /\ users[u].is_active = 0
    /\ \E k \in Keys : /\ api_keys[k] # NoRow /\ api_keys[k].user_id = u
                        /\ req.apiKey = <<api_keys[k].key_value>>
                        /\ api_keys[k].is_active = 1
                        /\ ~Expired(api_keys[k].expires_at, today)

\* C38: once DELETE /user/account of a user has been answered 200, an
\* authenticateToken call with a token of the user whose findUserById call ends is
\* rejected, with ACCOUNT_DEACTIVATED when the store answers, and an
\* authenticateApiKey call with a key of the user whose key lookup ends is rejected
\* there; while the users row is deactivated and the key row not yet, a lookup the
\* store answers is rejected with USER_INACTIVE; neither rejection changes api_keys.
C38_DeletedAccountLockedOut ==
    [][\A u \in Users :
          /\ (AccountDeleted(u) /\ req.pc = "t_user" /\ req'.pc # "t_user"
                  /\ req.token[1].id = u) =>
                /\ req'.pc = "done" /\ ~req'.nexted
                /\ req'.h_user = "ok" =>
                       req'.res = Response(401, "ACCOUNT_DEACTIVATED", NoData)
          /\ (AccountDeleted(u) /\ req.pc = "lookup" /\ req'.pc # "lookup"
                  /\ PresentsKeyOf(u)) =>
                /\ req'.pc = "done" /\ ~req'.nexted /\ req'.res # NoRes
                /\ api_keys' = api_keys
          /\ (HalfDeleted(u) /\ req.pc = "lookup" /\ req'.pc # "lookup"
                  /\ req'.h_lookup = "ok") =>
                /\ req'.pc = "done" /\ ~req'.nexted
                /\ req'.res = Response(401, "USER_INACTIVE", NoData)
                /\ api_keys' = api_keys]_vars

\* After the 200 answer a request with a key of the user has been rejected for the
\* deactivated key, with the day's count as it was.
C38_KeyRejectedAfterDeletion ==
    \E u \in Users :
        /\ AccountDeleted(u) /\ PresentsKeyOf(u)
        /\ req.mw = "authenticateApiKey" /\ req.pc = "done"
        /\ req.res = Response(401, "API_KEY_DEACTIVATED", NoData)
        /\ \A k \in Keys : api_keys[k].requests_today = req.h_rows[k].requests_today


\* ---- C39
\* C39: a password reset token changes a password at most once.
C39_TokenChangesPasswordOnce ==
    \A tok \in DOMAIN resets : resets[tok].h_changes <= 1

============================================================================
